---- MODULE Spec2Model ----
(***************************************************************************)
(* Model of the Student AI Assistant backend (backend/orchestrator.py,     *)
(* backend/main.py and the agents they call).                              *)
(*                                                                         *)
(* Spec      : requests served by StudentAOrchestrator.process_request,    *)
(*             the sequential workflow that every entry point calls.      *)
(* FairSpec  : Spec with the fairness a sequential interpreter gives.      *)
(* GraphSpec : the node functions and edges handed to the LangGraph       *)
(*             StateGraph in _build_graph, run superstep by superstep.    *)
(*                                                                         *)
(* Python dicts are functions with a string domain; dict.get(k, d) is     *)
(* Get(d, k, default).  Strings that the code edits are sequences of      *)
(* word tokens with " " and "\n" as whitespace tokens.  Floats are kept in *)
(* tenths.                                                                 *)
(***************************************************************************)
EXTENDS Integers, Sequences, FiniteSets, TLC

VARIABLES
    \* ---- one call of process_request (orchestrator.py 83-171) ----
    user_input,     \* request text
    student_id,     \* request student id
    topic,          \* local `topic`
    pc,             \* position of control in process_request / the endpoint
    inCall,         \* TRUE while control is inside a handler call
    status,         \* per handler: pending, running, ok, fallback, raised, hung
    calls,          \* per handler: invocations made in this request
    args,           \* per handler: the arguments of its latest invocation
    results,        \* per handler: the value it returned (EmptyDict if none)
    response,       \* the dict process_request returned (EmptyDict if none)
    http,           \* status code the endpoint answered for the last request
    nreq,           \* requests received so far
    \* ---- google.generativeai module state, shared by all of the above ----
    genai_api_key,  \* api_key last given to genai.configure
    \* ---- one run of the compiled graph (orchestrator.py 37-75) ----
    g_pc,           \* start, analyzed, executing, ended, raised
    g_input,        \* state["user_input"]
    g_reply,        \* what the classification call of analyze_input gave
    g_topic,        \* state["topic"]
    g_outputs,      \* state["agent_outputs"]
    g_meta,         \* state["metadata"]
    g_final,        \* state["final_response"]
    g_analysis,     \* state["metadata"]["analysis"], or absent
    g_route,        \* value returned by _route_to_agents
    g_frontier,     \* nodes triggered for the current superstep
    g_finished,     \* nodes of the current superstep that have returned
    g_ran,          \* per graph node: times it has run
    g_args,         \* per handler node: the arguments it gave its handler
    g_step,         \* superstep number
    \* ---- _coordinate_final_response applied to a given state (379-424) ----
    c_state,        \* the OrchestratorState it is applied to
    c_outs,         \* what each application so far gave, in order
    \* ---- the FastAPI application (main.py) ----
    server,         \* starting (before startup_event), serving
    orchestrator,   \* the global `orchestrator`: none or ready
    endpoint,       \* endpoint the request in progress came through
    upload,         \* the file given to /study-plan-with-pdf
    temp_files,     \* temporary files that exist on disk
    health,         \* what /health answered last
    \* ---- one call of a handler or tool with given arguments ----
    f_call,         \* the function called and its arguments
    f_out,          \* what the call gave
    \* ---- the camera demo (camera_demo.py, agent_utils.py) ----
    cam_pc,         \* position of control in demo_camera_live_detection
    hume_client,    \* whether agent_utils.hume_client was initialised
    emotion_counter,\* analyze_emotion_sync._emotion_counter
    frame_count,    \* frames read so far
    emotion_data,   \* result of the call at line 75
    stress_percentage, \* result of the call at line 78
    reported        \* what line 81 printed for the latest frame

reqVars   == <<user_input, student_id, topic, pc, inCall, status, calls, args,
               results, response, http, nreq>>
graphVars == <<g_pc, g_input, g_reply, g_topic, g_outputs, g_meta, g_final,
               g_analysis, g_route, g_frontier, g_finished, g_ran, g_args,
               g_step>>
coordVars == <<c_state, c_outs>>
srvVars   == <<server, orchestrator, endpoint, upload, temp_files, health>>
callVars  == <<f_call, f_out>>
camVars   == <<cam_pc, hume_client, emotion_counter, frame_count, emotion_data,
               stress_percentage, reported>>
vars      == <<reqVars, genai_api_key, graphVars, coordVars, srvVars, callVars,
               camVars>>

-----------------------------------------------------------------------------
(* Bounds *)

MaxRequests == 2
MaxCalls    == 2

-----------------------------------------------------------------------------
(* Python helpers *)

EmptyDict == [k \in {} |-> k]

Get(d, k, default) == IF k \in DOMAIN d THEN d[k] ELSE default

Put(d, k, v) == [x \in DOMAIN d \cup {k} |-> IF x = k THEN v ELSE d[x]]

Max(a, b) == IF a >= b THEN a ELSE b
Min(a, b) == IF a <= b THEN a ELSE b

\* str.lower() on one token
Lower(tok) ==
    CASE tok = "Help"     -> "help"
      [] tok = "Machine"  -> "machine"
      [] tok = "Learning" -> "learning"
      [] tok = "Python"   -> "python"
      [] tok = "[UPLOADED_BOOK_CONTENT]"  -> "[uploaded_book_content]"
      [] tok = "[/UPLOADED_BOOK_CONTENT]" -> "[/uploaded_book_content]"
      [] tok = "Chapter"  -> "chapter"
      [] tok = ".PDF"     -> ".pdf"
      [] tok = "Gradient" -> "gradient"
      [] tok = "Descent"  -> "descent"
      [] OTHER            -> tok

LowerAll(s) == [i \in 1..Len(s) |-> Lower(s[i])]

StartsWith(s, p) == Len(p) <= Len(s) /\ SubSeq(s, 1, Len(p)) = p

\* str.replace(p, ""): leftmost, non-overlapping occurrences
RECURSIVE Remove(_, _)
Remove(s, p) ==
    IF s = <<>> THEN <<>>
    ELSE IF StartsWith(s, p) THEN Remove(SubSeq(s, Len(p) + 1, Len(s)), p)
    ELSE <<Head(s)>> \o Remove(Tail(s), p)

\* the characters str.strip() removes
Whitespace == {" ", "\n"}

RECURSIVE LStrip(_)
LStrip(s) == IF s # <<>> /\ Head(s) \in Whitespace THEN LStrip(Tail(s)) ELSE s

RECURSIVE RStrip(_)
RStrip(s) ==
    IF s # <<>> /\ s[Len(s)] \in Whitespace
    THEN RStrip(SubSeq(s, 1, Len(s) - 1)) ELSE s

Strip(s) == RStrip(LStrip(s))

PreparePhrase == <<"help", " ", "me", " ", "prepare", " ", "for", " ", "my">>
WithPhrase    == <<"help", " ", "me", " ", "with">>

\* _extract_topic (orchestrator.py 77-81)
ExtractTopicOf(text) == Strip(Remove(Remove(LowerAll(text), PreparePhrase), WithPhrase))

-----------------------------------------------------------------------------
(* Requests *)

StartMarker == "[UPLOADED_BOOK_CONTENT]"
EndMarker   == "[/UPLOADED_BOOK_CONTENT]"

\* text extract_pdf_text returned for the uploaded file (main.py 264)
DocumentText == <<"Chapter", " ", "1">>

\* enhanced_input of create_study_plan_with_pdf (main.py 270)
EnhancedInput(text, pdf_content) ==
    text \o <<"\n", "\n", StartMarker, "\n">> \o pdf_content
         \o <<"\n", EndMarker>>

\* request texts: StudyRequest.user_input is any str (main.py 44-46)
UserInputs ==
    { <<"Help", " ", "me", " ", "prepare", " ", "for", " ", "my", " ",
        "Machine", " ", "Learning", " ", "exam">>,
      <<"help", " ", "me", " ", "with", " ", "Python">>,
      <<"Help", " ", "me", " ", "with">>,
      EnhancedInput(<<"Help", " ", "me", " ", "with", " ", "Python">>, DocumentText),
      <<>> }

StudentIds == {"demo_student", "s42"}


-----------------------------------------------------------------------------
(* Strings built with f"{n} hours": a number token followed by a unit *)

FmtInt(n)     == [kind |-> "int", v |-> n]
FmtTenths(t)  == [kind |-> "float", v |-> t]
Hours(tok)    == <<tok, "hours">>
Minutes(tok)  == <<tok, "minutes">>

\* float(s.split()[0]) in tenths; -1 stands for the ValueError / IndexError
ParseTenths(s) ==
    IF Len(s) = 0 THEN -1
    ELSE IF s[1] \in {FmtInt(n) : n \in 0..24} THEN s[1].v * 10
    ELSE IF s[1] \in {FmtTenths(t) : t \in 0..240} THEN s[1].v
    ELSE -1

RECURSIVE Contains(_, _)
Contains(s, p) ==
    IF Len(s) < Len(p) THEN FALSE
    ELSE StartsWith(s, p) \/ Contains(Tail(s), p)

NoneVal == [none |-> TRUE]

-----------------------------------------------------------------------------
(* Wellness handler (agents/wellness_agent.py) *)

\* datetime.now().hour, one value per branch of the time test (212-216)
HourValues == {3, 12, 19}

\* what _capture_and_analyze_emotion leaves in hume_emotion_data (52-57):
\* None without a Hume client or webcam library, else an emotion reading
HumeReadings ==
    { NoneVal,
      [emotion |-> "neutral", confidence |-> 5],
      [emotion |-> "tired",   confidence |-> 9],
      [emotion |-> "stressed", confidence |-> 7] }

\* _calculate_fatigue (206-244), tenths
CalculateFatigue(facial, activity, hume, hour) ==
    LET base  == 3
        time  == IF 22 <= hour \/ hour <= 6 THEN 4
                 ELSE IF 18 <= hour /\ hour <= 21 THEN 2 ELSE 0
        emo   == IF hume # NoneVal /\ Get(hume, "confidence", 0) > 6
                 THEN LET e == Get(hume, "emotion", "")
                      IN  IF e \in {"tired", "sleepy", "boredom", "disengaged"} THEN 4
                          ELSE IF e \in {"focused", "determined", "curious"} THEN -2
                          ELSE IF e \in {"frustrated", "irritated"} THEN 3
                          ELSE 0
                 ELSE 0
        ind   == IF facial # NoneVal THEN Get(facial, "fatigue_indicators", {}) ELSE {}
        face  == (IF "tired_eyes" \in ind THEN 3 ELSE 0)
                 + (IF "yawning" \in ind THEN 2 ELSE 0)
        act   == IF activity # NoneVal /\ Get(activity, "steps_today", 5000) < 3000
                 THEN 2 ELSE 0
    IN  Min(10, Max(0, base + time + emo + face + act))

\* `any(e in emotion for e in stress_emotions)` over the emotion vocabulary
HasStressWord(e) == e \in {"stressed", "fearful", "anxiety", "frustration"}
HasCalmWord(e)   == e \in {"contentment", "relaxation", "satisfaction", "peace"}

\* _calculate_stress (246-277), tenths
CalculateStress(facial, activity, hume) ==
    LET base == 2
        conf == hume # NoneVal /\ Get(hume, "confidence", 0) > 6
        emo  == (IF conf /\ HasStressWord(Get(hume, "emotion", "")) THEN 4 ELSE 0)
                - (IF conf /\ HasCalmWord(Get(hume, "emotion", "")) THEN 2 ELSE 0)
        ind  == IF facial # NoneVal THEN Get(facial, "stress_indicators", {}) ELSE {}
        face == (IF "frown" \in ind THEN 3 ELSE 0)
                + (IF "tense_jaw" \in ind THEN 2 ELSE 0)
        hrv  == IF activity # NoneVal THEN Get(activity, "heart_rate_variability", 50)
                ELSE 50
        act  == IF activity = NoneVal THEN 0
                ELSE IF hrv < 30 THEN 3 ELSE IF hrv > 70 THEN -2 ELSE 0
    IN  Min(10, Max(0, base + emo + face + act))

\* random.choices(base_emotions, ...) of _detect_emotion (293-298)
SimulatedEmotions == {"focused", "confused", "tired", "stressed", "neutral", "happy"}

\* _detect_emotion (279-298): the set of values it may return
DetectEmotion(hume, facial) ==
    IF hume # NoneVal /\ Get(hume, "confidence", 0) > 7
    THEN {Get(hume, "emotion", "neutral")}
    ELSE IF facial # NoneVal /\ "emotion" \in DOMAIN facial
    THEN {facial["emotion"]}
    ELSE SimulatedEmotions

Take(s, n) == SubSeq(s, 1, Min(n, Len(s)))

MaxRecommendations == 3

\* _generate_recommendations (318-392); hume is a dict here (see 325, 381)
GenerateRecommendations(fatigue, stress, emotion, hume) ==
    LET r1 == IF fatigue > 7 THEN <<"rest">> ELSE <<>>
        r2 == IF stress > 6 \/ emotion \in {"anxious", "stressed", "frustrated"}
              THEN <<"mindfulness">> ELSE <<>>
        r3 == IF emotion = "confused" THEN <<"study_technique">> ELSE <<>>
        r4 == IF emotion \in {"tired", "sleepy"} THEN <<"hydration_nutrition">> ELSE <<>>
        r5 == IF emotion \in {"happy", "excited", "focused"} THEN <<"motivation">> ELSE <<>>
        r6 == IF Get(hume, "confidence", 0) > 8 THEN <<"ai_insight">> ELSE <<>>
    IN  Take(r1 \o r2 \o r3 \o r4 \o r5 \o r6, MaxRecommendations)

\* Outcomes of a handler call: a value from the handler's main path, a value
\* from the handler's own except-branch, or an exception that leaves it
Returned(v) == [kind |-> "return", how |-> "ok", value |-> v]
FellBack(v) == [kind |-> "return", how |-> "fallback", value |-> v]
Raised      == [kind |-> "raise"]

\* assess_wellness (48-73).  wellness_report["hume_emotion_data"] is present
\* even when it is None, so .get(..., {}) at 325 yields None and the
\* .get at 381 raises AttributeError.
AssessWellness(facial, activity, hume, hour) ==
    LET fatigue == CalculateFatigue(facial, activity, hume, hour)
        stress  == CalculateStress(facial, activity, hume)
    IN  IF hume = NoneVal THEN {Raised}
        ELSE { Returned([fatigue_level     |-> fatigue,
                         stress_level      |-> stress,
                         emotional_state   |-> e,
                         hume_emotion_data |-> hume,
                         recommendations   |->
                             GenerateRecommendations(fatigue, stress, e, hume)])
               : e \in DetectEmotion(hume, facial) }

\* get_wellness_assessment (438-441) over the readings the sensors may give
GetWellnessAssessment(facial, activity) ==
    UNION { AssessWellness(facial, activity, hume, hour)
            : hume \in HumeReadings, hour \in HourValues }

-----------------------------------------------------------------------------
(* Learning handler (agents/learning_agent.py) *)

Video   == [platform |-> "YouTube",       type |-> "video"]
Book    == [platform |-> "Google Books",  type |-> "book"]
Article == [platform |-> "GeeksforGeeks", type |-> "article"]

\* result lists the three searches may add up to (49-67)
SearchHits ==
    { <<>>,
      <<Article, Article>>,
      <<Video, Video, Video, Book, Book, Article, Article>> }

AdvancedTopics == { <<"machine", " ", "learning">>, <<"deep", " ", "learning">>,
                    <<"quantum", " ", "computing">>, <<"advanced", " ", "algorithms">> }
BeginnerTopics == { <<"html">>, <<"css">>, <<"basic", " ", "programming">>,
                    <<"introduction">> }

\* _estimate_difficulty (330-343)
EstimateDifficulty(t) ==
    IF \E a \in AdvancedTopics : Contains(LowerAll(t), a) THEN "advanced"
    ELSE IF \E b \in BeginnerTopics : Contains(LowerAll(t), b) THEN "beginner"
    ELSE "intermediate"

RECURSIVE SumTime(_)
SumTime(rs) ==
    IF rs = <<>> THEN 0
    ELSE (CASE Get(Head(rs), "type", "") = "video"   -> 1
            [] Get(Head(rs), "type", "") = "book"    -> 3
            [] Get(Head(rs), "type", "") = "article" -> 1
            [] OTHER -> 0) + SumTime(Tail(rs))

MaxStudyHours == 8
TopResources  == 5

\* _estimate_study_time (345-358)
EstimateStudyTime(rs) == Min(2 + SumTime(rs), MaxStudyHours)

\* search_resources_async (40-78) without a document
SearchResourcesAsync(t, hits) ==
    [resources      |-> Take(hits, TopResources),
     difficulty     |-> EstimateDifficulty(t),
     estimated_time |-> Hours(FmtInt(EstimateStudyTime(hits))),
     pdf_analysis   |-> NoneVal]

\* _get_mock_resources (426-447)
GetMockResources(t) ==
    [resources      |-> <<Article, Video>>,
     difficulty     |-> "beginner",
     estimated_time |-> Hours(FmtInt(2))]

\* the truth value Python gives an optional string
Truthy(str) == str # NoneVal /\ str # <<>>

\* what _analyze_pdf_content (264-326) may return: its fallback dict, or the
\* JSON object of the generative call completed by setdefault
PdfAnalyses ==
    { [key_topics |-> <<<<"PDF", " ", "Content">>>>,
       key_concepts |-> <<"Content analysis">>,
       difficulty |-> "intermediate",
       estimated_study_time |-> Hours(FmtInt(2))],
      [key_topics |-> <<<<"machine", " ", "learning">>>>,
       key_concepts |-> <<"Content analysis">>,
       difficulty |-> "advanced",
       estimated_study_time |-> Hours(FmtInt(2))] }

\* search_resources_async (40-78) with a document: the topic becomes the
\* first key topic of the document (45-47) and the analysis is returned (77)
SearchResourcesWithPdf(t, hits, pdf_analysis) ==
    [SearchResourcesAsync(Get(pdf_analysis, "key_topics", <<t>>)[1], hits)
        EXCEPT !.pdf_analysis = pdf_analysis]

\* get_learning_resources (449-452): the constructor is outside the try of
\* search_resources (83-96), whose bare except returns the mock resources
GetLearningResources(t, pdf_content) ==
    (IF Truthy(pdf_content)
     THEN { Returned(SearchResourcesWithPdf(t, hits, pa))
            : hits \in SearchHits, pa \in PdfAnalyses }
     ELSE { Returned(SearchResourcesAsync(t, hits)) : hits \in SearchHits })
    \cup { FellBack(GetMockResources(t)) }

-----------------------------------------------------------------------------
(* Assessment handler (agents/assessment_agent.py) *)

\* _choose_question_type (133-142)
QuestionTypes(difficulty) ==
    IF difficulty = "beginner" THEN {"multiple_choice", "true_false"}
    ELSE {"multiple_choice", "fill_blank", "true_false"}

\* the random draws of one quiz: all questions of one type, or the first
\* question of another type than the rest
QuestionDraws(difficulty, n) ==
    { [i \in 1..n |-> [type |-> IF i = 1 THEN t1 ELSE t2]]
      : t1 \in QuestionTypes(difficulty), t2 \in {"multiple_choice"} }

\* _generate_quiz_async (34-60) and _generate_basic_quiz (62-98) build the
\* same dict; generate_quiz (15-32) falls back to the second on any error
QuizOf(t, learning_data, n, qs) ==
    [topic           |-> t,
     difficulty      |-> Get(learning_data, "difficulty", "intermediate"),
     questions       |-> qs,
     total_questions |-> n,
     estimated_time  |-> Minutes(FmtInt(n * 2))]

\* generate_quiz (398-401)
GenerateQuiz(t, learning_data, n) ==
    IF learning_data = NoneVal THEN {Raised}
    ELSE LET d == Get(learning_data, "difficulty", "intermediate")
         IN  { Returned(QuizOf(t, learning_data, n, qs)) : qs \in QuestionDraws(d, n) }
             \cup { FellBack(QuizOf(t, learning_data, n, qs))
                    : qs \in QuestionDraws(d, n) }

-----------------------------------------------------------------------------
(* Schedule handler (agents/schedule_agent.py) *)

\* session length by difficulty, tenths of an hour (113-118)
SessionDuration(difficulty) ==
    IF difficulty = "beginner" THEN 10
    ELSE IF difficulty = "intermediate" THEN 15 ELSE 20

\* variant: a break only for high fatigue
WithBreak_HighOnly(session, fatigue) ==
    IF fatigue > 7
    THEN [k \in DOMAIN session \cup {"wellness_break"} |->
            IF k = "wellness_break"
            THEN [duration |-> Minutes(FmtInt(10)), activity |-> "Mindfulness meditation"]
            ELSE session[k]]
    ELSE session

\* _add_wellness_breaks (169-188) for one session
WithBreak(session, fatigue) ==
    IF fatigue > 7
    THEN [k \in DOMAIN session \cup {"wellness_break"} |->
            IF k = "wellness_break"
            THEN [duration |-> Minutes(FmtInt(10)), activity |-> "Mindfulness meditation"]
            ELSE session[k]]
    ELSE IF fatigue > 5
    THEN [k \in DOMAIN session \cup {"wellness_break"} |->
            IF k = "wellness_break"
            THEN [duration |-> Minutes(FmtInt(5)), activity |-> "Quick stretch break"]
            ELSE session[k]]
    ELSE session

\* _create_sessions (108-142); hours per session rounded to a tenth
CreateSessions(t, resources, total, difficulty) ==
    LET num == Max(1, total \div SessionDuration(difficulty))
        per == (2 * total + num) \div (2 * num)
    IN  [i \in 1..num |->
            [session_id |-> i,
             day        |-> i - 1,
             duration   |-> Hours(FmtTenths(per)),
             topic      |-> <<t, "Part", i>>,
             resources  |-> <<IF resources # <<>>
                              THEN resources[((i - 1) % Len(resources)) + 1]
                              ELSE EmptyDict>>]]

RECURSIVE CalendarEvents(_)
\* _generate_calendar_events (190-234)
CalendarEvents(sessions) ==
    IF sessions = <<>> THEN <<>>
    ELSE LET s == Head(sessions)
             study == [summary |-> <<"Study Session", s.topic>>, day |-> s.day]
             brk   == IF "wellness_break" \in DOMAIN s
                      THEN <<[summary |-> <<"Wellness Break", s.wellness_break.activity>>,
                              day |-> s.day]>>
                      ELSE <<>>
         IN  <<study>> \o brk \o CalendarEvents(Tail(sessions))

\* create_study_plan (67-106) with create_google_events = False
CreateStudyPlan(t, learning_data, wellness_data) ==
    LET resources  == Get(learning_data, "resources", <<>>)
        difficulty == Get(learning_data, "difficulty", "intermediate")
        est        == Get(learning_data, "estimated_time", Hours(FmtInt(2)))
        total      == IF ParseTenths(est) < 0 THEN 20 ELSE ParseTenths(est)
        plain      == CreateSessions(t, resources, total, difficulty)
        tired      == wellness_data # NoneVal /\ wellness_data # EmptyDict
                      /\ Get(wellness_data, "fatigue_level", 0) > 5
        sessions   == IF tired
                      THEN [i \in 1..Len(plain) |->
                              WithBreak(plain[i], Get(wellness_data, "fatigue_level", 0))]
                      ELSE plain
    IN  [study_plan |-> [topic          |-> t,
                         total_duration |-> Hours(FmtTenths(total)),
                         difficulty     |-> difficulty,
                         sessions       |-> sessions],
         calendar_events        |-> CalendarEvents(sessions),
         google_calendar_result |-> NoneVal]

\* get_study_plan (381-384)
GetStudyPlan(t, learning_data, wellness_data) ==
    IF learning_data = NoneVal THEN {Raised}
    ELSE {Returned(CreateStudyPlan(t, learning_data, wellness_data))}

-----------------------------------------------------------------------------
(* Personalization handler (agents/personalization_agent.py) *)

\* the random draws of _create_mock_profile (28-61) that _adjust_difficulty
\* reads: confidence below 0.5, preferred challenge, average score class
MockProfiles ==
    [low_confidence : BOOLEAN, preferred_challenge : {"beginner", "advanced"},
     score : {"low", "mid", "high"}]

Levels == <<"beginner", "intermediate", "advanced">>

LevelIndex(d) == IF d = "beginner" THEN 1 ELSE IF d = "advanced" THEN 3 ELSE 2

Count(b) == IF b THEN 1 ELSE 0

\* _adjust_difficulty (116-149)
AdjustDifficulty(base, profile, wellness) ==
    LET idx  == LevelIndex(base)
        dec  == Count(profile.low_confidence) + Count(wellness.fatigue_level > 7)
                + Count(wellness.stress_level > 6) + Count(profile.score = "low")
        inc  == Count(profile.preferred_challenge = "advanced")
                + Count(profile.score = "high")
    IN  IF dec > inc /\ idx > 1 THEN Levels[idx - 1]
        ELSE IF inc > dec /\ idx < 3 THEN Levels[idx + 1]
        ELSE base

\* get_personalized_path (262-267); wellness["fatigue_level"] and
\* wellness["stress_level"] are indexed without a default (125-127)
GetPersonalizedPath(t, learning_resources, wellness, sid) ==
    IF ~({"fatigue_level", "stress_level"} \subseteq DOMAIN wellness) THEN {Raised}
    ELSE { Returned([adjusted_difficulty |->
                        AdjustDifficulty(Get(learning_resources, "difficulty",
                                             "intermediate"), p, wellness),
                     personalized_resources |->
                        Get(learning_resources, "resources", <<>>)])
           : p \in MockProfiles }

-----------------------------------------------------------------------------
(* Motivation handler (agents/motivation_agent.py) *)

\* _get_primary_message (68-82): which of the three messages, and the suffix
PrimaryMessages(performance_level, emotional_state) ==
    IF emotional_state = "confused" THEN {[text |-> "progress", suffix |-> "none"]}
    ELSE { [text |-> <<performance_level, i>>,
            suffix |-> IF emotional_state \in {"tired", "stressed", "focused"}
                       THEN emotional_state ELSE "none"]
           : i \in 1..3 }

MaxSupports == 3

\* _provide_support (182-230)
ProvideSupport(fatigue, emotion) ==
    LET s1 == IF fatigue > 7 THEN <<"rest_reminder">> ELSE <<>>
        s2 == IF fatigue > 5 THEN <<"energy_boost">> ELSE <<>>
        s3 == IF emotion = "confused" THEN <<"perspective_shift">> ELSE <<>>
        s4 == IF emotion = "stressed" THEN <<"stress_relief">> ELSE <<>>
        s5 == IF emotion = "tired" THEN <<"gentle_encouragement">> ELSE <<>>
    IN  Take(s1 \o s2 \o s3 \o s4 \o s5 \o <<"self_compassion">>, MaxSupports)

\* _suggest_next_goal (232-272): the first or the second goal of the level
NextGoals(context) ==
    { [goal |-> <<Get(context, "performance_level", "good_performance"), g,
                  Get(context, "current_topic", <<"your", " ", "studies">>)>>]
      : g \in 1..2 }

\* get_motivational_support (342-345), generate_motivational_response (49-66)
GetMotivationalSupport(context) ==
    LET level   == Get(context, "performance_level", "good_performance")
        emotion == Get(context, "emotional_state", "neutral")
        fatigue == Get(context, "fatigue_level", 3)
    IN  { Returned([primary_message  |-> m,
                    support_elements |-> ProvideSupport(fatigue, emotion),
                    next_goal        |-> g])
          : m \in PrimaryMessages(level, emotion), g \in NextGoals(context) }

-----------------------------------------------------------------------------
(* process_request (orchestrator.py 83-171) *)

Nodes == {"wellness", "personalization", "learning", "assessment", "schedule",
          "motivation"}

\* variants of the call order: the quiz before the resources, the resources
\* before the wellness assessment, the resources before the personalized path
Workflow_QuizBeforeLearning ==
    <<"wellness", "personalization", "assessment", "learning", "schedule",
      "motivation">>
Workflow_LearningBeforeWellness ==
    <<"learning", "wellness", "personalization", "assessment", "schedule",
      "motivation">>
Workflow_LearningBeforePersonalization ==
    <<"wellness", "learning", "personalization", "assessment", "schedule",
      "motivation">>

\* the order of the six calls in process_request (98, 111, 121, 124, 127, 137)
Workflow == <<"wellness", "personalization", "learning", "assessment",
              "schedule", "motivation">>

IndexOf(n) == CHOOSE i \in 1..Len(Workflow) : Workflow[i] = n

\* variant: the response is formatted right after the study plan
NextPc_SkipMotivation(n) ==
    IF n = "schedule" THEN "format_response"
    ELSE IF IndexOf(n) < Len(Workflow) THEN Workflow[IndexOf(n) + 1]
    ELSE "format_response"

\* the statement control reaches when the call of n returns
NextPc(n) ==
    IF IndexOf(n) < Len(Workflow) THEN Workflow[IndexOf(n) + 1]
    ELSE "format_response"

\* variant: a failed call is made again
RaisePc_Retry(n) == n

\* process_request has no try: an exception in a call leaves process_request
RaisePc(n) == "raised"

\* lines 89-97, 101-110
FacialData   == [emotion |-> "focused", fatigue_indicators |-> {}]
ActivityData == [steps_today |-> 8500, active_minutes |-> 75, calories_burned |-> 2100]
LearningResourcesMock ==
    [resources      |-> <<[title |-> "Placeholder", platform |-> "Demo"]>>,
     difficulty     |-> "intermediate",
     estimated_time |-> Hours(FmtInt(2))]

NumQuestions == 3

\* the arguments of each call, from the locals bound so far
ArgsOf(n) ==
    CASE n = "wellness" ->
            [facial_data |-> FacialData, activity_data |-> ActivityData]
      [] n = "personalization" ->
            [topic |-> topic, learning_resources |-> LearningResourcesMock,
             wellness_assessment |-> results["wellness"], student_id |-> student_id]
      [] n = "learning" ->
            [topic |-> topic, api_key |-> NoneVal, pdf_content |-> NoneVal]
      [] n = "assessment" ->
            [topic |-> topic, learning_data |-> results["learning"],
             num_questions |-> NumQuestions, api_key |-> NoneVal]
      [] n = "schedule" ->
            [topic |-> topic, learning_data |-> results["learning"],
             wellness_data |-> results["wellness"]]
      [] n = "motivation" ->
            [context |-> [performance_level  |-> "good_performance",
                          emotional_state    |-> results["wellness"]["emotional_state"],
                          fatigue_level      |-> results["wellness"]["fatigue_level"],
                          progress_milestone |-> TRUE,
                          current_topic      |-> topic],
             api_key |-> NoneVal]

\* the agents whose __init__ calls genai.configure(api_key=...) with the
\* api_key their helper was given (learning_agent.py 21, assessment_agent.py
\* 12, motivation_agent.py 13)
ConfiguringHandlers == {"learning", "assessment", "motivation"}

\* the api_key of the genai configuration after the agent of n is built
Configure(n, a, current) ==
    IF n \in ConfiguringHandlers THEN a.api_key ELSE current

\* the key main.py's startup_event hands to create_study_assistant (72-92),
\* which StudentAOrchestrator.__init__ passes to genai.configure (31)
ConstructionKey == [key |-> "GEMINI_API_KEY"]

\* building the arguments raises (KeyError at 132-133)
ArgsRaise(n) ==
    n = "motivation"
    /\ ~({"emotional_state", "fatigue_level"} \subseteq DOMAIN results["wellness"])

\* what a call with arguments a may do, from the handler's code
Outcomes(n, a) ==
    CASE n = "wellness"        -> GetWellnessAssessment(a.facial_data, a.activity_data)
      [] n = "personalization" -> GetPersonalizedPath(a.topic, a.learning_resources,
                                                      a.wellness_assessment, a.student_id)
      [] n = "learning"        -> GetLearningResources(a.topic, a.pdf_content)
      [] n = "assessment"      -> GenerateQuiz(a.topic, a.learning_data, a.num_questions)
      [] n = "schedule"        -> GetStudyPlan(a.topic, a.learning_data, a.wellness_data)
      [] n = "motivation"      -> GetMotivationalSupport(a.context)

Resolved == {"ok", "fallback"}

RequiredKeys == {"greeting", "study_plan", "learning_resources", "wellness_insights",
                 "assessment", "motivational_support", "calendar_events", "metadata"}

\* the dict returned at 140-171
FormatResponse(t, sid, text, wellness, learning, quiz, plan, motivation) ==
    [greeting |-> "Here's your personalized study plan!",
     study_plan |->
        [topic      |-> t,
         duration   |-> Get(plan, "total_duration", Hours(FmtInt(2))),
         difficulty |-> Get(learning, "difficulty", "intermediate"),
         sessions   |-> Get(plan, "sessions", <<>>)],
     learning_resources |->
        [resources      |-> Get(learning, "resources", <<>>),
         estimated_time |-> Get(learning, "estimated_time", Hours(FmtInt(2)))],
     wellness_insights |->
        [fatigue_level   |-> Get(wellness, "fatigue_level", 3),
         emotional_state |-> Get(wellness, "emotional_state", "focused"),
         recommendations |-> Take(Get(wellness, "recommendations", <<>>), 2)],
     assessment |->
        [available_quiz |-> Get(quiz, "questions", <<>>) # <<>>,
         question_count |-> Len(Get(quiz, "questions", <<>>)),
         estimated_time |-> Get(quiz, "estimated_time", Minutes(FmtInt(3)))],
     motivational_support |->
        [primary_message |-> Get(motivation, "primary_message", "You've got this!"),
         next_goal       |-> Get(Get(motivation, "next_goal", EmptyDict), "goal",
                                 "Complete your first study session")],
     calendar_events |-> Get(plan, "calendar_events", <<>>),
     metadata |->
        [generated_at |-> "2025-01-07T14:00:00Z",
         session_id   |-> [student |-> sid, hash_of |-> text]]]

NoStatus  == [n \in Nodes |-> "pending"]
NoCalls   == [n \in Nodes |-> 0]
NoDicts   == [n \in Nodes |-> EmptyDict]

\* create_study_plan (main.py 117-128) calls process_request with the
\* request text once the orchestrator check at line 120 has passed
Receive(text, sid) ==
    /\ server = "serving"
    /\ orchestrator = "ready"
    /\ pc = "idle"
    /\ nreq < MaxRequests
    /\ endpoint' = "study-plan"
    /\ nreq' = nreq + 1
    /\ user_input' = text
    /\ student_id' = sid
    /\ topic' = <<>>
    /\ pc' = "extract_topic"
    /\ inCall' = FALSE
    /\ status' = NoStatus
    /\ calls' = NoCalls
    /\ args' = NoDicts
    /\ results' = NoDicts
    /\ response' = EmptyDict
    /\ http' = "none"
    /\ UNCHANGED <<server, orchestrator, upload, temp_files, health>>
    /\ UNCHANGED <<genai_api_key, graphVars, coordVars, callVars, camVars>>

\* line 86
ExtractTopic ==
    /\ pc = "extract_topic"
    /\ topic' = ExtractTopicOf(user_input)
    /\ pc' = Workflow[1]
    /\ UNCHANGED <<user_input, student_id, inCall, status, calls, args, results,
                   response, http, nreq>>
    /\ UNCHANGED <<genai_api_key, graphVars, coordVars, srvVars, callVars, camVars>>

\* control enters the call of handler n; the helper first constructs the
\* agent, whose __init__ may configure the generative-text client
Invoke(n) ==
    /\ pc = n
    /\ ~inCall
    /\ calls[n] < MaxCalls
    /\ IF ArgsRaise(n)
       THEN /\ pc' = RaisePc(n)
            /\ UNCHANGED <<inCall, status, calls, args, genai_api_key>>
       ELSE /\ inCall' = TRUE
            /\ status' = [status EXCEPT ![n] = "running"]
            /\ calls' = [calls EXCEPT ![n] = @ + 1]
            /\ args' = [args EXCEPT ![n] = ArgsOf(n)]
            /\ genai_api_key' = Configure(n, ArgsOf(n), genai_api_key)
            /\ pc' = pc
    /\ UNCHANGED <<user_input, student_id, topic, results, response, http, nreq>>
    /\ UNCHANGED <<graphVars, coordVars, srvVars, callVars, camVars>>

\* the call returns a value, from its main path or from its own fallback
HandlerReturns(n) ==
    /\ pc = n
    /\ inCall
    /\ status[n] = "running"
    /\ \E o \in Outcomes(n, args[n]) :
          /\ o.kind = "return"
          /\ results' = [results EXCEPT ![n] = o.value]
          /\ status' = [status EXCEPT ![n] = o.how]
    /\ inCall' = FALSE
    /\ pc' = NextPc(n)
    /\ UNCHANGED <<user_input, student_id, topic, calls, args, response, http, nreq>>
    /\ UNCHANGED <<genai_api_key, graphVars, coordVars, srvVars, callVars, camVars>>

\* the call raises: an error of the handler's own code, of the service it
\* calls outside its try blocks, or one injected at the handler boundary
HandlerRaises(n) ==
    /\ pc = n
    /\ inCall
    /\ status[n] = "running"
    /\ status' = [status EXCEPT ![n] = "raised"]
    /\ inCall' = FALSE
    /\ pc' = RaisePc(n)
    /\ UNCHANGED <<user_input, student_id, topic, calls, args, results, response,
                   http, nreq>>
    /\ UNCHANGED <<genai_api_key, graphVars, coordVars, srvVars, callVars, camVars>>

\* the call never returns (a service call without a timeout)
HandlerHangs(n) ==
    /\ pc = n
    /\ inCall
    /\ status[n] = "running"
    /\ status' = [status EXCEPT ![n] = "hung"]
    /\ UNCHANGED <<user_input, student_id, topic, pc, inCall, calls, args, results,
                   response, http, nreq>>
    /\ UNCHANGED <<genai_api_key, graphVars, coordVars, srvVars, callVars, camVars>>

\* lines 140-171
Aggregate ==
    /\ pc = "format_response"
    /\ response' = FormatResponse(topic, student_id, user_input,
                                  results["wellness"], results["learning"],
                                  results["assessment"], results["schedule"],
                                  results["motivation"])
    /\ pc' = "returned"
    /\ UNCHANGED <<user_input, student_id, topic, inCall, status, calls, args,
                   results, http, nreq>>
    /\ UNCHANGED <<genai_api_key, graphVars, coordVars, srvVars, callVars, camVars>>

\* len(pdf_content.split('\n\n')) (main.py 277)
Pages(content) ==
    1 + Cardinality({ i \in 1..(Len(content) - 1) :
                        content[i] = "\n" /\ content[i + 1] = "\n" })

\* main.py 276-278
WithPdfMetadata(resp) ==
    [resp EXCEPT !["metadata"] =
        Put(Put(Put(@, "pdf_processed", TRUE),
                "pdf_pages", Pages(upload.document.text)),
            "pdf_filename", upload.filename)]

\* create_study_plan (main.py 130-138) and create_study_plan_with_pdf
\* (main.py 275-288): fill the missing keys, answer 200
EndpointResponds ==
    /\ pc = "returned"
    /\ LET r == IF endpoint = "study-plan-with-pdf"
                THEN WithPdfMetadata(response) ELSE response
       IN  response' = [k \in DOMAIN r \cup RequiredKeys |->
                          IF k \in DOMAIN r THEN r[k]
                          ELSE IF k = "calendar_events" THEN <<>> ELSE EmptyDict]
    /\ http' = "200"
    /\ pc' = "idle"
    /\ UNCHANGED <<user_input, student_id, topic, inCall, status, calls, args,
                   results, nreq>>
    /\ UNCHANGED <<genai_api_key, graphVars, coordVars, srvVars, callVars, camVars>>

\* create_study_plan (main.py 140-141) and create_study_plan_with_pdf
\* (main.py 290-291): any exception becomes a 500
EndpointFails ==
    /\ pc = "raised"
    /\ http' = "500"
    /\ pc' = "idle"
    /\ UNCHANGED <<user_input, student_id, topic, inCall, status, calls, args,
                   results, response, nreq>>
    /\ UNCHANGED <<genai_api_key, graphVars, coordVars, srvVars, callVars, camVars>>

-----------------------------------------------------------------------------
(* The FastAPI application (main.py) *)

\* startup_event (66-96): create_study_assistant either gives the
\* orchestrator or raises, and the except branch leaves the global None
StartupEvent ==
    /\ server = "starting"
    /\ server' = "serving"
    /\ \/ /\ orchestrator' = "ready"
          /\ genai_api_key' = ConstructionKey
       \/ /\ orchestrator' = "none"
          /\ genai_api_key' \in {genai_api_key, ConstructionKey}
    /\ UNCHANGED <<endpoint, upload, temp_files, health>>
    /\ UNCHANGED <<reqVars, graphVars, coordVars, callVars, camVars>>

AgentsAvailable ==
    <<"learning_agent", "schedule_agent", "wellness_agent", "assessment_agent",
      "personalization_agent", "motivation_agent", "orchestrator">>

\* variant: the answer does not look at the orchestrator
HealthOf_AlwaysHealthy(orch) ==
    [status |-> "healthy", agents_available |-> AgentsAvailable]

\* the HealthCheckResponse of health_check (98-115)
HealthOf(orch) ==
    [status |-> IF orch # "none" THEN "healthy" ELSE "degraded",
     agents_available |-> IF orch # "none" THEN AgentsAvailable ELSE <<>>]

HealthCheck ==
    /\ server = "serving"
    /\ health' = HealthOf(orchestrator)
    /\ UNCHANGED <<server, orchestrator, endpoint, upload, temp_files>>
    /\ UNCHANGED <<reqVars, genai_api_key, graphVars, coordVars, callVars, camVars>>

\* endpoints that begin with the `if not orchestrator` check (120, 192, 246);
\* /demo calls create_study_plan (150)
StudyPlanEndpoints ==
    {"study-plan", "demo", "study-plan-with-calendar", "study-plan-with-pdf"}

\* lines 120-124, 192-196, 246-250: HTTP 503, raised before the try block
Unavailable(ep) ==
    /\ server = "serving"
    /\ orchestrator = "none"
    /\ pc = "idle"
    /\ endpoint' = ep
    /\ http' = "503"
    /\ UNCHANGED <<user_input, student_id, topic, pc, inCall, status, calls, args,
                   results, response, nreq>>
    /\ UNCHANGED <<server, orchestrator, upload, temp_files, health>>
    /\ UNCHANGED <<genai_api_key, graphVars, coordVars, callVars, camVars>>

\* UploadFile.filename values; the test at 253 is on the lower-cased name
FileNames == { <<"book", ".pdf">>, <<"BOOK", ".PDF">>, <<"notes", ".txt">> }

IsPdfName(f) == LowerAll(f)[Len(f)] = ".pdf"

\* what the uploaded bytes hold: a PDF with its text, or something
\* fitz.open cannot read
Documents ==
    { [readable |-> TRUE, text |-> DocumentText],
      [readable |-> TRUE,
       text |-> <<"Chapter", " ", "1", "\n", "\n", "Chapter", " ", "2">>],
      [readable |-> FALSE, text |-> <<>>] }

\* the Form field user_input of /study-plan-with-pdf
PdfTexts == { <<"Help", " ", "me", " ", "with", " ", "Python">> }

\* create_study_plan_with_pdf (246-261): 400 for another file type, else the
\* bytes are written to a temporary file that outlives the `with` block
\* (delete=False)
ReceivePdf(text, sid, f, doc) ==
    /\ server = "serving"
    /\ orchestrator = "ready"
    /\ pc = "idle"
    /\ nreq < MaxRequests
    /\ nreq' = nreq + 1
    /\ endpoint' = "study-plan-with-pdf"
    /\ upload' = [filename |-> f, document |-> doc]
    /\ user_input' = text
    /\ student_id' = sid
    /\ topic' = <<>>
    /\ inCall' = FALSE
    /\ status' = NoStatus
    /\ calls' = NoCalls
    /\ args' = NoDicts
    /\ results' = NoDicts
    /\ response' = EmptyDict
    /\ IF IsPdfName(f)
       THEN /\ temp_files' = temp_files + 1
            /\ pc' = "pdf_saved"
            /\ http' = "none"
       ELSE /\ http' = "400"
            /\ UNCHANGED <<temp_files, pc>>
    /\ UNCHANGED <<server, orchestrator, health>>
    /\ UNCHANGED <<genai_api_key, graphVars, coordVars, callVars, camVars>>

\* lines 264-273: extract_pdf_text (293-312) raises for a file it cannot
\* read, and control goes to the except at 290 without reaching the
\* os.unlink at 267; otherwise the file is removed and process_request is
\* called with the enhanced input
ExtractPdfText ==
    /\ pc = "pdf_saved"
    /\ IF ~upload.document.readable
       THEN /\ pc' = "raised"
            /\ UNCHANGED <<temp_files, user_input>>
       ELSE /\ temp_files' = temp_files - 1
            /\ user_input' = EnhancedInput(user_input, upload.document.text)
            /\ pc' = "extract_topic"
    /\ UNCHANGED <<student_id, topic, inCall, status, calls, args, results,
                   response, http, nreq>>
    /\ UNCHANGED <<server, orchestrator, endpoint, upload, health>>
    /\ UNCHANGED <<genai_api_key, graphVars, coordVars, callVars, camVars>>

-----------------------------------------------------------------------------
(* The graph of _build_graph (orchestrator.py 37-75) *)

HandlerNodes == {"personalization_agent", "learning_agent", "wellness_agent",
                 "assessment_agent", "schedule_agent", "motivation_agent"}

GraphNodes == HandlerNodes \cup {"analyze_input", "coordinate_response"}

\* variant: no edge from the personalization node to the wellness node
Edges_NoWellnessBranch ==
    { <<"personalization_agent", "learning_agent">>,
      <<"learning_agent", "assessment_agent">>,
      <<"wellness_agent", "schedule_agent">>,
      <<"assessment_agent", "motivation_agent">>,
      <<"schedule_agent", "motivation_agent">>,
      <<"motivation_agent", "coordinate_response">>,
      <<"coordinate_response", "END">> }

\* add_edge calls at 66-73
Edges ==
    { <<"personalization_agent", "learning_agent">>,
      <<"personalization_agent", "wellness_agent">>,
      <<"learning_agent", "assessment_agent">>,
      <<"wellness_agent", "schedule_agent">>,
      <<"assessment_agent", "motivation_agent">>,
      <<"schedule_agent", "motivation_agent">>,
      <<"motivation_agent", "coordinate_response">>,
      <<"coordinate_response", "END">> }

\* variant: every policy enters at the personalization node
PathMap_AlwaysPersonalization(route) == "personalization_agent"

\* the path map of add_conditional_edges (55-63)
PathMap(route) ==
    CASE route = "personalization_first" -> "personalization_agent"
      [] route = "learning_focused"      -> "learning_agent"
      [] route = "comprehensive_study"   -> "personalization_agent"

Policies == {"personalization_first", "learning_focused", "comprehensive_study"}

\* variant: the final else returns the resource-only policy
RouteToAgents_DefaultLearning(analysis) ==
    LET intent == Get(analysis, "intent", "study_planning")
        needs_personalization == Get(analysis, "needs_personalization", TRUE)
    IN  IF needs_personalization /\ intent \in {"study_planning", "comprehensive_study"}
        THEN "comprehensive_study"
        ELSE "learning_focused"

\* _route_to_agents (366-377)
RouteToAgents(analysis) ==
    LET intent == Get(analysis, "intent", "study_planning")
        needs_personalization == Get(analysis, "needs_personalization", TRUE)
    IN  IF needs_personalization /\ intent \in {"study_planning", "comprehensive_study"}
        THEN "comprehensive_study"
        ELSE IF intent = "resource_finding" THEN "learning_focused"
        ELSE "personalization_first"

Successors(ns) == {e[2] : e \in {d \in Edges : d[1] \in ns}} \ {"END"}

RECURSIVE ReachableFrom(_)
ReachableFrom(ns) ==
    IF Successors(ns) \subseteq ns THEN ns ELSE ReachableFrom(ns \cup Successors(ns))

\* the handler nodes that run when the graph is entered under a policy
ActiveNodes(route) == ReachableFrom({PathMap(route)}) \cap HandlerNodes

\* the values the "intent" key of an analysis may hold: the four the prompt
\* asks for (196), and others a generated answer may contain
RecognisedIntents == {"study_planning", "resource_finding", "assessment", "general_help"}
IntentValues == RecognisedIntents \cup {"comprehensive_study", "exam_cram", "chitchat"}

\* JSON objects the classification call may answer with, each of the keys
\* that routing reads present or absent (and no topic or complexity key)
Analyses ==
    { [k \in ks |-> IF k = "intent" THEN i ELSE p]
      : ks \in SUBSET {"intent", "needs_personalization"},
        i \in IntentValues, p \in BOOLEAN }

-----------------------------------------------------------------------------
(* _analyze_user_input (orchestrator.py 173-248) *)

\* str.find on tokens: position of the first occurrence, 0 if there is none
Find(s, tok) ==
    IF \E i \in 1..Len(s) : s[i] = tok
    THEN CHOOSE i \in 1..Len(s) : s[i] = tok /\ \A j \in 1..(i - 1) : s[j] # tok
    ELSE 0

\* line 180
HasPdf(text) == Find(text, StartMarker) > 0 /\ Find(text, EndMarker) > 0

\* line 187: user_input[start_idx:end_idx].strip()
PdfContentOf(text) ==
    Strip(SubSeq(text, Find(text, StartMarker) + 1, Find(text, EndMarker) - 1))

\* line 190: the slice from the start marker to the end marker is replaced by
\* "" (replacing an empty slice changes nothing), then strip()
WithoutDocument(text) ==
    LET block == SubSeq(text, Find(text, StartMarker), Find(text, EndMarker))
    IN  IF ~HasPdf(text) THEN text
        ELSE Strip(IF block = <<>> THEN text ELSE Remove(text, block))

PreparePhraseCap == <<"Help", " ", "me", " ", "prepare", " ", "for", " ", "my">>
WithPhraseCap    == <<"Help", " ", "me", " ", "with">>

\* line 231: the topic of the fallback analysis
FallbackTopic(text) == Strip(Remove(Remove(text, PreparePhraseCap), WithPhraseCap))

\* lines 230-237
FallbackAnalysis(text, has_pdf) ==
    [topic                 |-> FallbackTopic(text),
     intent                |-> "study_planning",
     complexity            |-> "moderate",
     has_time_constraint   |-> FALSE,
     needs_personalization |-> TRUE,
     has_uploaded_content  |-> has_pdf]

\* a JSON value that json.loads turns into a list, a str or a number
JsonArray == [json_array |-> TRUE]

\* the value has a .get method
IsDict(v) == v # NoneVal /\ v # JsonArray

\* JSON objects with all six keys of the prompt (194-200)
FullAnalyses ==
    { [topic                 |-> <<"machine", " ", "learning">>,
       intent                |-> i,
       complexity            |-> "complex",
       has_time_constraint   |-> FALSE,
       needs_personalization |-> TRUE,
       has_uploaded_content  |-> FALSE] : i \in {"study_planning", "resource_finding"} }

\* what lines 207-227 may give: generate_content raises, response.text is
\* empty, the text is not JSON, or json.loads returns a value
Replies ==
    { [kind |-> "error"], [kind |-> "empty"], [kind |-> "text"] }
    \cup { [kind |-> "json", value |-> v]
           : v \in Analyses \cup FullAnalyses \cup {NoneVal, JsonArray} }

GeneralStudies == <<"general", " ", "studies">>

\* the value bound to `analysis` at line 239
AnalysisOf(text, reply) ==
    IF reply.kind = "json" THEN reply.value
    ELSE FallbackAnalysis(WithoutDocument(text), HasPdf(text))

\* lines 241-246: has_pdf, and the document when there is a non-empty one
MetaAfterAnalysis(meta, text) ==
    LET m == Put(meta, "has_pdf", HasPdf(text))
    IN  IF HasPdf(text) /\ PdfContentOf(text) # <<>>
        THEN Put(m, "pdf_content_preview", PdfContentOf(text))
        ELSE m

OutputsAfterAnalysis(outputs, text) ==
    IF HasPdf(text) /\ PdfContentOf(text) # <<>>
    THEN Put(outputs, "pdf_content", PdfContentOf(text))
    ELSE outputs

\* analyze_input runs: analysis.get at 239 is outside the try, so a value
\* without .get raises AttributeError and the run of the graph ends there
GAnalyze(reply) ==
    /\ g_pc = "start"
    /\ g_reply' = reply
    /\ g_ran' = [g_ran EXCEPT !["analyze_input"] = @ + 1]
    /\ IF IsDict(AnalysisOf(g_input, reply))
       THEN /\ g_topic' = Get(AnalysisOf(g_input, reply), "topic", GeneralStudies)
            /\ g_analysis' = AnalysisOf(g_input, reply)
            /\ g_meta' = MetaAfterAnalysis(g_meta, g_input)
            /\ g_outputs' = OutputsAfterAnalysis(g_outputs, g_input)
            /\ g_pc' = "analyzed"
       ELSE /\ g_pc' = "raised"
            /\ UNCHANGED <<g_topic, g_analysis, g_meta, g_outputs>>
    /\ UNCHANGED <<g_input, g_final, g_route, g_frontier, g_finished, g_args,
                   g_step>>
    /\ UNCHANGED <<reqVars, genai_api_key, coordVars, srvVars, callVars, camVars>>

-----------------------------------------------------------------------------
(* The node functions _run_*_agent (orchestrator.py 250-364) *)

\* the handler a node function calls (273, 303, 322, 335, 345, 361)
HandlerOf(n) ==
    CASE n = "personalization_agent" -> "personalization"
      [] n = "learning_agent"        -> "learning"
      [] n = "wellness_agent"        -> "wellness"
      [] n = "assessment_agent"      -> "assessment"
      [] n = "schedule_agent"        -> "schedule"
      [] n = "motivation_agent"      -> "motivation"

\* variant: the wellness node stores its result under the learning key
AgentKey_WellnessOverLearning(n) ==
    IF n = "wellness_agent" THEN "learning" ELSE HandlerOf(n)

\* the key of state["agent_outputs"] a node function assigns (281, 304,
\* 323, 336, 346, 362)
AgentKey(n) ==
    CASE n = "personalization_agent" -> "personalization"
      [] n = "learning_agent"        -> "learning"
      [] n = "wellness_agent"        -> "wellness"
      [] n = "assessment_agent"      -> "assessment"
      [] n = "schedule_agent"        -> "schedule"
      [] n = "motivation_agent"      -> "motivation"

\* lines 267-271
WellnessMock == [fatigue_level |-> 3, stress_level |-> 2, emotional_state |-> "focused"]

\* lines 329-333
LearningDefault ==
    [resources |-> <<>>, difficulty |-> "intermediate",
     estimated_time |-> Hours(FmtInt(2))]

\* state["student_id"] of the run
GraphStudent == "demo_student"

\* the arguments a node function gives its handler, read from the state
NodeArgs(n, t, outputs) ==
    CASE n = "personalization_agent" ->
            [topic |-> t, learning_resources |-> LearningResourcesMock,
             wellness_assessment |-> WellnessMock, student_id |-> GraphStudent]
      [] n = "learning_agent" ->
            [topic |-> t, api_key |-> NoneVal,
             pdf_content |-> Get(outputs, "pdf_content", NoneVal)]
      [] n = "wellness_agent" ->
            [facial_data |-> FacialData, activity_data |-> ActivityData]
      [] n = "assessment_agent" ->
            [topic |-> t, learning_data |-> Get(outputs, "learning", LearningDefault),
             num_questions |-> NumQuestions, api_key |-> NoneVal]
      [] n = "schedule_agent" ->
            [topic |-> t, learning_data |-> Get(outputs, "learning", EmptyDict),
             wellness_data |-> Get(outputs, "wellness", EmptyDict)]
      [] n = "motivation_agent" ->
            [context |->
                [performance_level  |-> "good_performance",
                 emotional_state    |->
                     Get(Get(outputs, "wellness", EmptyDict), "emotional_state", "neutral"),
                 fatigue_level      |->
                     Get(Get(outputs, "wellness", EmptyDict), "fatigue_level", 3),
                 progress_milestone |-> TRUE,
                 current_topic      |-> t],
             api_key |-> NoneVal]

-----------------------------------------------------------------------------
(* _coordinate_final_response (orchestrator.py 379-424) *)

\* an OrchestratorState, as far as the aggregation reads and writes it
StateOf(t, outputs, meta, final) ==
    [topic |-> t, agent_outputs |-> outputs, metadata |-> meta,
     final_response |-> final]

\* the dict built at 390-421
FinalResponse(state) ==
    LET agent_outputs == state.agent_outputs
        study_plan == Get(Get(agent_outputs, "schedule", EmptyDict), "study_plan",
                          EmptyDict)
        learning_resources == Get(agent_outputs, "learning", EmptyDict)
        wellness_info == Get(agent_outputs, "wellness", EmptyDict)
        quiz == Get(agent_outputs, "assessment", EmptyDict)
        motivation == Get(agent_outputs, "motivation", EmptyDict)
    IN  [greeting |-> "Here's your personalized study plan!",
         study_plan |->
            [topic      |-> Get(study_plan, "topic", state.topic),
             duration   |-> Get(study_plan, "total_duration", Hours(FmtInt(2))),
             difficulty |-> Get(study_plan, "difficulty", "intermediate"),
             sessions   |-> Get(study_plan, "sessions", <<>>)],
         learning_resources |->
            [resources      |-> Get(learning_resources, "resources", <<>>),
             estimated_time |-> Get(learning_resources, "estimated_time",
                                    Hours(FmtInt(2)))],
         wellness_insights |->
            [fatigue_level   |-> Get(wellness_info, "fatigue_level", 3),
             emotional_state |-> Get(wellness_info, "emotional_state", "focused"),
             recommendations |-> Take(Get(wellness_info, "recommendations", <<>>), 2)],
         assessment |->
            [available_quiz |-> Get(quiz, "questions", <<>>) # <<>>,
             question_count |-> Len(Get(quiz, "questions", <<>>)),
             estimated_time |-> Get(quiz, "estimated_time", Minutes(FmtInt(3)))],
         motivational_support |->
            [primary_message |-> Get(motivation, "primary_message", "You've got this!"),
             next_goal       |-> Get(Get(motivation, "next_goal", EmptyDict), "goal",
                                     "Complete your first study session")],
         calendar_events |->
            Get(Get(agent_outputs, "schedule", EmptyDict), "calendar_events", <<>>),
         metadata |->
            [generated_at |-> "2025-01-07T14:00:00Z",
             session_id   |-> state.metadata["session_id"]]]

\* variant: a response that is already there is kept and marked as kept
CoordinateFinalResponse_KeepFirst(state) ==
    IF "session_id" \notin DOMAIN state.metadata THEN Raised
    ELSE IF state.final_response # EmptyDict
    THEN Returned([state EXCEPT !.final_response =
                      Put(state.final_response, "greeting", "Here it is again")])
    ELSE Returned([state EXCEPT !.final_response = FinalResponse(state)])

\* _coordinate_final_response: state["metadata"]["session_id"] is indexed
\* without a default (419), so the call raises KeyError when it is not there
CoordinateFinalResponse(state) ==
    IF "session_id" \notin DOMAIN state.metadata THEN Raised
    ELSE Returned([state EXCEPT !.final_response = FinalResponse(state)])

-----------------------------------------------------------------------------
(* One run of the graph *)

\* the conditional edge after analyze_input picks the first handler node
GRoute ==
    /\ g_pc = "analyzed"
    /\ g_route' = RouteToAgents(g_analysis)
    /\ g_frontier' = {PathMap(RouteToAgents(g_analysis))}
    /\ g_finished' = {}
    /\ g_step' = 1
    /\ g_pc' = "executing"
    /\ UNCHANGED <<g_input, g_reply, g_topic, g_outputs, g_meta, g_final,
                   g_analysis, g_ran, g_args>>
    /\ UNCHANGED <<reqVars, genai_api_key, coordVars, srvVars, callVars, camVars>>

\* a handler node of the current superstep runs: it calls its handler and
\* stores what the handler returned under its own key; an exception of the
\* handler leaves the node function and ends the run
GRunHandler(n) ==
    /\ \E o \in Outcomes(HandlerOf(n), NodeArgs(n, g_topic, g_outputs)) :
          IF o.kind = "return"
          THEN /\ g_outputs' = Put(g_outputs, AgentKey(n), o.value)
               /\ g_finished' = g_finished \cup {n}
               /\ g_pc' = g_pc
          ELSE /\ g_pc' = "raised"
               /\ UNCHANGED <<g_outputs, g_finished>>
    /\ genai_api_key' = Configure(HandlerOf(n), NodeArgs(n, g_topic, g_outputs),
                                  genai_api_key)
    /\ g_args' = [g_args EXCEPT ![n] = NodeArgs(n, g_topic, g_outputs)]
    /\ UNCHANGED g_final

\* the coordinate_response node runs
GCoordinate ==
    LET o == CoordinateFinalResponse(StateOf(g_topic, g_outputs, g_meta, g_final))
    IN  /\ IF o.kind = "return"
           THEN /\ g_final' = o.value.final_response
                /\ g_finished' = g_finished \cup {"coordinate_response"}
                /\ g_pc' = g_pc
           ELSE /\ g_pc' = "raised"
                /\ UNCHANGED <<g_final, g_finished>>
        /\ UNCHANGED <<g_outputs, genai_api_key, g_args>>

\* one node of the current superstep runs
GRunNode(n) ==
    /\ g_pc = "executing"
    /\ n \in g_frontier \ g_finished
    /\ g_ran[n] < MaxCalls
    /\ g_ran' = [g_ran EXCEPT ![n] = @ + 1]
    /\ IF n \in HandlerNodes THEN GRunHandler(n) ELSE GCoordinate
    /\ UNCHANGED <<g_input, g_reply, g_topic, g_meta, g_analysis, g_route,
                   g_frontier, g_step>>
    /\ UNCHANGED <<reqVars, coordVars, srvVars, callVars, camVars>>

\* all nodes of the superstep have returned: their successors are triggered
GAdvance ==
    /\ g_pc = "executing"
    /\ g_finished = g_frontier
    /\ g_frontier' = Successors(g_frontier)
    /\ g_finished' = {}
    /\ g_step' = g_step + 1
    /\ g_pc' = IF Successors(g_frontier) = {} THEN "ended" ELSE "executing"
    /\ UNCHANGED <<g_input, g_reply, g_topic, g_outputs, g_meta, g_final,
                   g_analysis, g_route, g_ran, g_args>>
    /\ UNCHANGED <<reqVars, genai_api_key, coordVars, srvVars, callVars, camVars>>

-----------------------------------------------------------------------------
(* _coordinate_final_response applied to a given state *)

MaxApplications == 2

\* the state["final_response"] after the applications made so far
Coordinate ==
    /\ Len(c_outs) < MaxApplications
    /\ LET o == CoordinateFinalResponse(c_state)
       IN  /\ c_outs' = Append(c_outs, o)
           /\ c_state' = IF o.kind = "return" THEN o.value ELSE c_state
    /\ UNCHANGED <<reqVars, genai_api_key, graphVars, srvVars, callVars, camVars>>

-----
(* Specifications *)

ReqIdle ==
    /\ user_input = <<>>
    /\ student_id = "demo_student"
    /\ topic = <<>>
    /\ pc = "idle"
    /\ inCall = FALSE
    /\ status = NoStatus
    /\ calls = NoCalls
    /\ args = NoDicts
    /\ results = NoDicts
    /\ response = EmptyDict
    /\ http = "none"
    /\ nreq = 0

\* no request yet, the orchestrator constructed (orchestrator.py 30-35)
ReqInit ==
    /\ ReqIdle
    /\ genai_api_key = ConstructionKey

\* the graph before analyze_input, for a given initial state
GraphStart(text, meta) ==
    /\ g_pc = "start"
    /\ g_input = text
    /\ g_reply = [kind |-> "none"]
    /\ g_topic = <<>>
    /\ g_outputs = EmptyDict
    /\ g_meta = meta
    /\ g_final = EmptyDict
    /\ g_analysis = EmptyDict
    /\ g_route = "none"
    /\ g_frontier = {}
    /\ g_finished = {}
    /\ g_ran = [n \in GraphNodes |-> 0]
    /\ g_args = [n \in HandlerNodes |-> EmptyDict]
    /\ g_step = 0

GraphIdle == GraphStart(<<>>, EmptyDict)

CoordIdle ==
    /\ c_state = StateOf(<<>>, EmptyDict, EmptyDict, EmptyDict)
    /\ c_outs = <<>>

\* the application after a startup_event that initialised the orchestrator
ServerReady ==
    /\ server = "serving"
    /\ orchestrator = "ready"
    /\ endpoint = "none"
    /\ upload = [kind |-> "none"]
    /\ temp_files = 0
    /\ health = [kind |-> "none"]

CallIdle ==
    /\ f_call = [fn |-> "none"]
    /\ f_out = [kind |-> "none"]

CamIdle ==
    /\ cam_pc = "done"
    /\ hume_client = FALSE
    /\ emotion_counter = 0
    /\ frame_count = 0
    /\ emotion_data = [kind |-> "none"]
    /\ stress_percentage = 0
    /\ reported = [kind |-> "none"]

Init == ReqInit /\ GraphIdle /\ CoordIdle /\ ServerReady /\ CallIdle /\ CamIdle

Next ==
    \/ \E text \in UserInputs, sid \in StudentIds : Receive(text, sid)
    \/ ExtractTopic
    \/ \E n \in Nodes : Invoke(n)
    \/ \E n \in Nodes : HandlerReturns(n)
    \/ \E n \in Nodes : HandlerRaises(n)
    \/ \E n \in Nodes : HandlerHangs(n)
    \/ Aggregate
    \/ EndpointResponds
    \/ EndpointFails

Spec == Init /\ [][Next]_vars

\* a sequential interpreter takes every step that is enabled; whether a
\* call returns, raises or hangs is the handler's choice
FairSpec == Spec /\ WF_vars(Next)

\* request texts given to the graph
GraphInputs ==
    { <<"Help", " ", "me", " ", "prepare", " ", "for", " ", "my", " ",
        "Machine", " ", "Learning", " ", "exam">>,
      <<"Help", " ", "me", " ", "with">>,
      EnhancedInput(<<"Help", " ", "me", " ", "with", " ", "Python">>, DocumentText) }

SessionId == [student |-> "demo_student", hash_of |-> "text"]

\* state["metadata"] given to the graph: nothing in the graph sets the
\* session_id that line 419 reads, so it is there only if the caller put it
InitialMetadata == { EmptyDict, [session_id |-> SessionId] }

GraphInit ==
    /\ ReqInit
    /\ \E text \in GraphInputs, meta \in InitialMetadata : GraphStart(text, meta)
    /\ CoordIdle
    /\ ServerReady /\ CallIdle /\ CamIdle

GraphNext ==
    \/ \E r \in Replies : GAnalyze(r)
    \/ GRoute
    \/ \E n \in GraphNodes : GRunNode(n)
    \/ GAdvance

GraphSpec == GraphInit /\ [][GraphNext]_vars

HandlerKeys == {HandlerOf(n) : n \in HandlerNodes}

\* one result per handler, in two variants, as the handlers build them
SampleLearning(v) ==
    IF v = 1
    THEN SearchResourcesAsync(<<"python">>,
                              <<Video, Video, Video, Book, Book, Article, Article>>)
    ELSE GetMockResources(<<"python">>)

SampleWellness(v) ==
    (CHOOSE o \in AssessWellness(FacialData, ActivityData,
                                 IF v = 1 THEN [emotion |-> "tired", confidence |-> 9]
                                 ELSE [emotion |-> "neutral", confidence |-> 5],
                                 IF v = 1 THEN 3 ELSE 12) : o.kind = "return").value

SampleResult(k, v) ==
    CASE k = "learning" -> SampleLearning(v)
      [] k = "wellness" -> SampleWellness(v)
      [] k = "assessment" ->
            (CHOOSE o \in GenerateQuiz(<<"python">>, SampleLearning(v), NumQuestions)
                : o.kind = "return").value
      [] k = "schedule" ->
            CreateStudyPlan(<<"python">>, SampleLearning(v), SampleWellness(v))
      [] k = "personalization" ->
            (CHOOSE o \in GetPersonalizedPath(<<"python">>, LearningResourcesMock,
                                              WellnessMock, GraphStudent)
                : o.kind = "return").value
      [] k = "motivation" ->
            (CHOOSE o \in GetMotivationalSupport(
                              [performance_level |-> "good_performance",
                               emotional_state |-> IF v = 1 THEN "tired" ELSE "neutral",
                               fatigue_level |-> 3, progress_milestone |-> TRUE,
                               current_topic |-> <<"python">>])
                : o.kind = "return").value

\* execution states: each handler key present or absent, metadata with or
\* without a session_id, no final response yet
ExecutionStates ==
    { StateOf(<<"python">>, [k \in ks |-> SampleResult(k, v)],
              Put(meta, "has_pdf", FALSE), EmptyDict)
      : ks \in SUBSET HandlerKeys, v \in 1..2, meta \in InitialMetadata }

CoordInit ==
    /\ ReqInit
    /\ GraphIdle
    /\ c_state \in ExecutionStates
    /\ c_outs = <<>>
    /\ ServerReady /\ CallIdle /\ CamIdle

CoordNext == Coordinate

CoordSpec == CoordInit /\ [][CoordNext]_vars

\* request texts given to the running application: the one /demo sends
\* (main.py 146-149)
ServerInputs ==
    { <<"Help", " ", "me", " ", "prepare", " ", "for", " ", "my", " ",
        "Machine", " ", "Learning", " ", "exam">> }

\* the module as imported: `orchestrator = None` (main.py 64), nothing
\* configured, startup_event not yet run
ServerInit ==
    /\ ReqIdle
    /\ genai_api_key = NoneVal
    /\ GraphIdle /\ CoordIdle /\ CallIdle /\ CamIdle
    /\ server = "starting"
    /\ orchestrator = "none"
    /\ endpoint = "none"
    /\ upload = [kind |-> "none"]
    /\ temp_files = 0
    /\ health = [kind |-> "none"]

ServerNext ==
    \/ StartupEvent
    \/ HealthCheck
    \/ \E ep \in StudyPlanEndpoints : Unavailable(ep)
    \/ \E text \in ServerInputs : Receive(text, "demo_student")
    \/ \E text \in PdfTexts, f \in FileNames, doc \in Documents :
          ReceivePdf(text, "demo_student", f, doc)
    \/ ExtractPdfText
    \/ ExtractTopic
    \/ \E n \in Nodes : Invoke(n)
    \/ \E n \in Nodes : HandlerReturns(n)
    \/ \E n \in Nodes : HandlerRaises(n)
    \/ \E n \in Nodes : HandlerHangs(n)
    \/ Aggregate
    \/ EndpointResponds
    \/ EndpointFails

ServerSpec == ServerInit /\ [][ServerNext]_vars

-----------------------------------------------------------------------------
(* Handlers and tools called with given arguments *)

\* facial_data given to assess_wellness: none, the orchestrator's value, one
\* with every indicator the two calculations test (228-233, 262-266)
FacialSignals ==
    { NoneVal, FacialData,
      [fatigue_indicators |-> {"tired_eyes", "yawning"},
       stress_indicators  |-> {"frown", "tense_jaw"}] }

\* activity_data given to assess_wellness: one value per branch of 236-241
\* and 269-275
ActivitySignals ==
    { NoneVal, ActivityData,
      [steps_today |-> 1000, heart_rate_variability |-> 20],
      [heart_rate_variability |-> 80] }

\* hume_emotion_data: the readings above and one per remaining branch of
\* 219-225 and 254-259
EmotionReadings ==
    HumeReadings \cup { [emotion |-> "focused",     confidence |-> 9],
                        [emotion |-> "contentment", confidence |-> 9],
                        [emotion |-> "frustrated",  confidence |-> 9] }

HoursOfDay == 0..23

WellnessCalls ==
    { [fn |-> "assess_wellness", facial |-> f, activity |-> a, hume |-> h, hour |-> hr]
      : f \in FacialSignals, a \in ActivitySignals, h \in EmotionReadings,
        hr \in HoursOfDay }

\* WellnessAgent.assess_wellness (48-73) with the sensors reading f_call.hume
\* at hour f_call.hour
AssessWellnessCall ==
    /\ f_call.fn = "assess_wellness"
    /\ f_out.kind = "none"
    /\ f_out' \in AssessWellness(f_call.facial, f_call.activity, f_call.hume,
                                 f_call.hour)
    /\ UNCHANGED f_call
    /\ UNCHANGED <<reqVars, genai_api_key, graphVars, coordVars, srvVars, camVars>>

\* ---- handle_call_tool (mcp_server.py 158-250) ----

ListedTools == {"create_study_plan", "get_learning_resources", "assess_wellness",
                "generate_quiz", "create_schedule", "get_motivation"}

\* the texts of the TextContent values the function builds
NotInitializedText == [form |-> "not_initialized"]
UnknownToolText(name) == [form |-> "unknown_tool", name |-> name]
ErrorText(name) == [form |-> "error_executing_tool", name |-> name]
JsonText(result) == [form |-> "json", value |-> result]

\* the key each branch indexes without a default
RequiredArgument(name) ==
    CASE name = "create_study_plan"      -> "user_input"
      [] name = "get_learning_resources" -> "topic"
      [] name = "generate_quiz"          -> "topic"
      [] name = "create_schedule"        -> "topic"
      [] name = "get_motivation"         -> "context"
      [] OTHER                           -> "none"

\* orchestrator.process_request as the tool sees it: the dict of
\* orchestrator.py 140-171, or the exception of a handler, which
\* process_request lets through
ProcessRequest(text, sid) ==
    { Raised,
      Returned(FormatResponse(ExtractTopicOf(text), sid, text,
                              SampleWellness(1), SampleLearning(1),
                              SampleResult("assessment", 1),
                              SampleResult("schedule", 1),
                              SampleResult("motivation", 1))) }

\* what the call inside each branch may do (168-236)
ToolBody(name, arguments) ==
    CASE name = "create_study_plan" ->
            ProcessRequest(arguments["user_input"],
                           Get(arguments, "student_id", "demo_student"))
      [] name = "get_learning_resources" ->
            GetLearningResources(arguments["topic"], NoneVal)
      [] name = "assess_wellness" ->
            GetWellnessAssessment(Get(arguments, "facial_data", NoneVal),
                                  Get(arguments, "activity_data", NoneVal))
      [] name = "generate_quiz" ->
            GenerateQuiz(arguments["topic"],
                         [resources |-> <<>>,
                          difficulty |-> Get(arguments, "difficulty", "intermediate"),
                          estimated_time |-> Minutes(FmtInt(30))],
                         Get(arguments, "num_questions", 5))
      [] name = "create_schedule" ->
            GetStudyPlan(arguments["topic"],
                         Get(arguments, "learning_resources", EmptyDict),
                         Get(arguments, "wellness_data", EmptyDict))
      [] name = "get_motivation" ->
            GetMotivationalSupport(arguments["context"])

\* variant: no except clause around the branches
ToolOutcome_Propagates(name, o) ==
    IF o.kind = "return" THEN Returned(JsonText(o.value)) ELSE Raised

\* the try statement of 167-250 around one branch: the result as JSON text,
\* or the text of the except clause
ToolOutcome(name, o) ==
    IF o.kind = "return" THEN Returned(JsonText(o.value))
    ELSE Returned(ErrorText(name))

\* handle_call_tool (158-250); arguments None or without the required key
\* raises inside the try
HandleCallTool(name, arguments, orch) ==
    IF orch = "none" THEN {Returned(NotInitializedText)}
    ELSE IF name \notin ListedTools THEN {Returned(UnknownToolText(name))}
    ELSE IF arguments = NoneVal
            \/ (RequiredArgument(name) # "none"
                /\ RequiredArgument(name) \notin DOMAIN arguments)
    THEN {ToolOutcome(name, Raised)}
    ELSE {ToolOutcome(name, o) : o \in ToolBody(name, arguments)}

\* the genai configuration after the call: the helpers of 179 and 226 are
\* given "demo-key", generate_quiz and the handlers of process_request no key
ToolConfigure(name, arguments, orch, current) ==
    IF orch = "none" \/ name \notin ListedTools \/ arguments = NoneVal
       \/ RequiredArgument(name) \notin DOMAIN arguments \cup {"none"}
    THEN current
    ELSE IF name \in {"get_learning_resources", "get_motivation"}
    THEN [key |-> "demo-key"]
    ELSE IF name \in {"generate_quiz", "create_study_plan"} THEN NoneVal
    ELSE current

ToolNames == ListedTools \cup {"delete_account"}

ToolArguments ==
    { NoneVal, EmptyDict,
      [user_input |-> <<"Help", " ", "me", " ", "with", " ", "Python">>],
      [topic |-> <<"python">>],
      [topic |-> <<"python">>, difficulty |-> "beginner", num_questions |-> 2,
       learning_resources |-> SampleLearning(1),
       wellness_data |-> [fatigue_level |-> 8]],
      [context |-> [emotional_state |-> "tired", fatigue_level |-> 8]],
      [facial_data |-> FacialData, activity_data |-> ActivityData] }

ToolCalls ==
    { [fn |-> "handle_call_tool", name |-> n, arguments |-> a, orchestrator |-> o]
      : n \in ToolNames, a \in ToolArguments, o \in {"none", "ready"} }

HandleCallToolCall ==
    /\ f_call.fn = "handle_call_tool"
    /\ f_out.kind = "none"
    /\ f_out' \in HandleCallTool(f_call.name, f_call.arguments, f_call.orchestrator)
    /\ genai_api_key' = ToolConfigure(f_call.name, f_call.arguments,
                                      f_call.orchestrator, genai_api_key)
    /\ UNCHANGED f_call
    /\ UNCHANGED <<reqVars, graphVars, coordVars, srvVars, camVars>>

\* ---- get_motivational_support (motivation_agent.py 342-345) ----

FatigueLevels == 0..10

\* the emotional states _provide_support tests (202-223) and two it does not
EmotionalStates == {"confused", "stressed", "tired", "neutral", "focused"}

\* contexts with both keys, and the empty context (defaults of 184-185)
MotivationContexts ==
    { [performance_level |-> "good_performance", emotional_state |-> e,
       fatigue_level |-> f, current_topic |-> <<"python">>]
      : e \in EmotionalStates, f \in FatigueLevels }
    \cup { EmptyDict }

MotivationCalls ==
    { [fn |-> "get_motivational_support", context |-> c, api_key |-> k]
      : c \in MotivationContexts, k \in {NoneVal, [key |-> "demo-key"]} }

\* MotivationAgent(api_key) configures the generative-text client (13), then
\* generate_motivational_response(context)
GetMotivationalSupportCall ==
    /\ f_call.fn = "get_motivational_support"
    /\ f_out.kind = "none"
    /\ f_out' \in GetMotivationalSupport(f_call.context)
    /\ genai_api_key' = f_call.api_key
    /\ UNCHANGED f_call
    /\ UNCHANGED <<reqVars, graphVars, coordVars, srvVars, camVars>>

\* ---- AssessmentAgent.evaluate_answers (assessment_agent.py 320-354) ----

\* _check_answer (356-368); for fill_blank `x in y` is substring containment,
\* which holds for the empty string
CheckAnswer(question, answer) ==
    IF question.type \in {"multiple_choice", "true_false"}
    THEN answer = question.correct_answer
    ELSE IF question.type = "fill_blank"
    THEN Contains(LowerAll(question.correct_answer), Strip(LowerAll(answer)))
    ELSE FALSE

\* _analyze_performance (370-397): the level
AnalyzePerformance(score, difficulty) ==
    LET excellent == IF difficulty = "beginner" THEN 90
                     ELSE IF difficulty = "intermediate" THEN 85 ELSE 80
        good      == IF difficulty = "beginner" THEN 75
                     ELSE IF difficulty = "intermediate" THEN 70 ELSE 65
    IN  IF score >= excellent THEN "excellent"
        ELSE IF score >= good THEN "good" ELSE "needs_improvement"

\* evaluate_answers (320-354): zip stops at the shorter list; the division
\* at 342 raises ZeroDivisionError for a quiz with no questions.  The score
\* is in whole percent, rounded down.
EvaluateAnswers(quiz, student_answers) ==
    LET questions == quiz.questions
        total     == Len(questions)
        paired    == 1..Min(total, Len(student_answers))
        correct   == Cardinality({ i \in paired :
                                     CheckAnswer(questions[i], student_answers[i]) })
    IN  IF total = 0 THEN Raised
        ELSE Returned([score            |-> (correct * 100) \div total,
                       correct_answers  |-> correct,
                       total_questions  |-> total,
                       performance_level |->
                           AnalyzePerformance((correct * 100) \div total,
                                              quiz.difficulty),
                       detailed_feedback |->
                           [i \in paired |->
                               [question_id    |-> questions[i].id,
                                correct        |-> CheckAnswer(questions[i],
                                                               student_answers[i]),
                                student_answer |-> student_answers[i]]]])

MaxQuestions == 2

\* one question of each type _check_answer knows
QuizQuestions(i) ==
    { [id |-> i, type |-> "multiple_choice", correct_answer |-> <<"A">>],
      [id |-> i, type |-> "true_false",      correct_answer |-> <<"True">>],
      [id |-> i, type |-> "fill_blank",
       correct_answer |-> <<"Gradient", " ", "Descent">>] }

Quizzes ==
    { [topic |-> <<"python">>, difficulty |-> d, questions |-> qs]
      : d \in {"beginner", "advanced"},
        qs \in UNION { { q \in [1..n -> UNION {QuizQuestions(i) : i \in 1..MaxQuestions}]
                          : \A i \in 1..n : q[i].id = i }
                       : n \in 0..MaxQuestions } }

\* answers a student may give: right, wrong, differently cased, empty
AnswerValues == { <<"A">>, <<"B">>, <<"True">>, <<"gradient">>, <<>> }

AnswerLists == UNION { [1..n -> AnswerValues] : n \in 0..MaxQuestions }

EvaluateCalls ==
    { [fn |-> "evaluate_answers", quiz |-> q, student_answers |-> a]
      : q \in Quizzes, a \in AnswerLists }

EvaluateAnswersCall ==
    /\ f_call.fn = "evaluate_answers"
    /\ f_out.kind = "none"
    /\ f_out' = EvaluateAnswers(f_call.quiz, f_call.student_answers)
    /\ UNCHANGED f_call
    /\ UNCHANGED <<reqVars, genai_api_key, graphVars, coordVars, srvVars, camVars>>

\* ---- get_study_plan (schedule_agent.py 381-384) ----

\* a key that is absent, or present with one of the values of S
Opt(S) == {[has |-> FALSE]} \cup {[has |-> TRUE, v |-> x] : x \in S}

\* estimated_time strings: "0 hours", "3 hours", "2.5 hours", one whose first
\* word is no number, and the empty string
EstimatedTimes ==
    { Hours(FmtInt(0)), Hours(FmtInt(3)), Hours(FmtTenths(25)),
      Hours([kind |-> "word", w |-> "about"]), <<>> }

\* learning bundles: each key the handler reads (70-72) absent or present
LearningBundles ==
    { [k \in {x \in {"resources", "difficulty", "estimated_time"} :
                 (CASE x = "resources" -> r [] x = "difficulty" -> d
                    [] x = "estimated_time" -> e).has}
         |-> (CASE k = "resources" -> r [] k = "difficulty" -> d
                [] k = "estimated_time" -> e).v]
      : r \in Opt({<<>>, <<Video, Book>>}),
        d \in Opt({"beginner", "intermediate", "advanced"}),
        e \in Opt(EstimatedTimes) }

\* wellness_data: None, an empty dict, or a fatigue level
WellnessInputs ==
    {NoneVal, EmptyDict} \cup {[fatigue_level |-> f] : f \in FatigueLevels}

ScheduleCalls ==
    { [fn |-> "get_study_plan", topic |-> <<"python">>, learning_data |-> l,
       wellness_data |-> w]
      : l \in LearningBundles, w \in WellnessInputs }

GetStudyPlanCall ==
    /\ f_call.fn = "get_study_plan"
    /\ f_out.kind = "none"
    /\ f_out' \in GetStudyPlan(f_call.topic, f_call.learning_data,
                               f_call.wellness_data)
    /\ UNCHANGED f_call
    /\ UNCHANGED <<reqVars, genai_api_key, graphVars, coordVars, srvVars, camVars>>

Calls ==
    WellnessCalls \cup ToolCalls \cup MotivationCalls \cup EvaluateCalls
        \cup ScheduleCalls

CallInit ==
    /\ ReqInit /\ GraphIdle /\ CoordIdle /\ ServerReady /\ CamIdle
    /\ f_call \in Calls
    /\ f_out = [kind |-> "none"]

CallNext ==
    \/ AssessWellnessCall
    \/ HandleCallToolCall
    \/ GetMotivationalSupportCall
    \/ EvaluateAnswersCall
    \/ GetStudyPlanCall

CallSpec == CallInit /\ [][CallNext]_vars

-----------------------------------------------------------------------------
(* The camera demo (camera_demo.py 36-93, agent_utils.py 33-145) *)

\* mock_emotions (agent_utils.py 116)
MockEmotions == <<"happy", "confused", "focused", "stressed", "neutral", "relaxed",
                  "tired", "excited">>

\* random.uniform(0.6, 0.95) in tenths (117): its two ends
MockConfidences == {6, 9}

\* analyze_emotion_sync (72-145): the dict it returns and the value of
\* _emotion_counter afterwards.  Without a client the counter is not
\* touched; with one, the job either completes and the next emotion of the
\* rotation is returned, or raises before line 123 and the fallback of
\* 140-145 is returned.
AnalyzeEmotionSync(client, counter) ==
    IF ~client
    THEN { [result |-> [emotion |-> "neutral", confidence |-> 5], counter |-> counter] }
    ELSE { [result |-> [emotion |-> MockEmotions[(counter % Len(MockEmotions)) + 1],
                        confidence |-> c, mock_data |-> TRUE],
            counter |-> counter + 1] : c \in MockConfidences }
         \cup { [result |-> [emotion |-> "neutral", confidence |-> 5,
                             all_emotions |-> <<"neutral">>],
                 counter |-> counter] }

\* stress_mapping.get(emotion, 45.0) (42-60), percent
StressMapping(emotion) ==
    CASE emotion = "happy"      -> 20
      [] emotion = "sad"        -> 70
      [] emotion = "angry"      -> 85
      [] emotion = "fearful"    -> 90
      [] emotion = "surprised"  -> 40
      [] emotion = "disgusted"  -> 60
      [] emotion = "neutral"    -> 45
      [] emotion = "confused"   -> 55
      [] emotion = "focused"    -> 30
      [] emotion = "tired"      -> 75
      [] emotion = "stressed"   -> 95
      [] emotion = "relaxed"    -> 15
      [] emotion = "anxious"    -> 80
      [] emotion = "frustrated" -> 65
      [] emotion = "bored"      -> 50
      [] OTHER                  -> 45

\* analyze_image_for_stress (33-70): 50 without a client, else the stress
\* mapped from the result of its own call of analyze_emotion_sync (39)
AnalyzeImageForStress(client, counter) ==
    IF ~client THEN { [result |-> 50, counter |-> counter] }
    ELSE { LET level == StressMapping(Get(r.result, "emotion", "neutral"))
               conf  == Get(r.result, "confidence", 5)
               adj   == IF conf < 3 THEN (level * 8 + 50 * 2) \div 10 ELSE level
           IN  [result |-> Min(100, Max(0, adj)), counter |-> r.counter]
           : r \in AnalyzeEmotionSync(client, counter) }

\* frames after which the loop breaks (camera_demo.py 87), and the
\* iterations the 30 seconds leave room for
MaxFrames == 5
MaxIterations == 6

\* cv2.VideoCapture(0) and the isOpened test (37-40)
OpenCamera(opened) ==
    /\ cam_pc = "open"
    /\ cam_pc' = IF opened THEN "read" ELSE "done"
    /\ UNCHANGED <<hume_client, emotion_counter, frame_count, emotion_data,
                   stress_percentage, reported>>
    /\ UNCHANGED <<reqVars, genai_api_key, graphVars, coordVars, srvVars, callVars>>

\* one iteration up to the face test (48-62): the read fails, or the frame
\* has no face and is skipped, or it goes on to the analysis
ReadFrame(outcome) ==
    /\ cam_pc = "read"
    /\ frame_count < MaxIterations
    /\ frame_count' = frame_count + 1
    /\ cam_pc' = CASE outcome = "failed"  -> "done"
                   [] outcome = "no_face" -> "read"
                   [] outcome = "face"    -> "emotion"
    /\ UNCHANGED <<hume_client, emotion_counter, emotion_data, stress_percentage,
                   reported>>
    /\ UNCHANGED <<reqVars, genai_api_key, graphVars, coordVars, srvVars, callVars>>

\* the while condition fails: duration_seconds have passed (48)
TimeUp ==
    /\ cam_pc = "read"
    /\ cam_pc' = "done"
    /\ UNCHANGED <<hume_client, emotion_counter, frame_count, emotion_data,
                   stress_percentage, reported>>
    /\ UNCHANGED <<reqVars, genai_api_key, graphVars, coordVars, srvVars, callVars>>

\* line 75
AnalyzeEmotion ==
    /\ cam_pc = "emotion"
    /\ \E r \in AnalyzeEmotionSync(hume_client, emotion_counter) :
          /\ emotion_data' = r.result
          /\ emotion_counter' = r.counter
    /\ cam_pc' = "stress"
    /\ UNCHANGED <<hume_client, frame_count, stress_percentage, reported>>
    /\ UNCHANGED <<reqVars, genai_api_key, graphVars, coordVars, srvVars, callVars>>

\* line 78
AnalyzeStress ==
    /\ cam_pc = "stress"
    /\ \E r \in AnalyzeImageForStress(hume_client, emotion_counter) :
          /\ stress_percentage' = r.result
          /\ emotion_counter' = r.counter
    /\ cam_pc' = "report"
    /\ UNCHANGED <<hume_client, frame_count, emotion_data, reported>>
    /\ UNCHANGED <<reqVars, genai_api_key, graphVars, coordVars, srvVars, callVars>>

\* lines 81-89: the result line of the frame, and the break after 5 frames
Report ==
    /\ cam_pc = "report"
    /\ reported' = [frame |-> frame_count, emotion |-> emotion_data.emotion,
                    confidence |-> emotion_data.confidence,
                    stress |-> stress_percentage]
    /\ cam_pc' = IF frame_count >= MaxFrames THEN "done" ELSE "read"
    /\ UNCHANGED <<hume_client, emotion_counter, frame_count, emotion_data,
                   stress_percentage>>
    /\ UNCHANGED <<reqVars, genai_api_key, graphVars, coordVars, srvVars, callVars>>

\* calls of analyze_emotion_sync made in the process before the demo starts
MaxEarlierCalls == 8

CameraInit ==
    /\ ReqInit /\ GraphIdle /\ CoordIdle /\ ServerReady /\ CallIdle
    /\ cam_pc = "open"
    /\ hume_client \in BOOLEAN
    /\ emotion_counter \in IF hume_client THEN 0..MaxEarlierCalls ELSE {0}
    /\ frame_count = 0
    /\ emotion_data = [kind |-> "none"]
    /\ stress_percentage = 0
    /\ reported = [kind |-> "none"]

CameraNext ==
    \/ \E opened \in BOOLEAN : OpenCamera(opened)
    \/ \E outcome \in {"failed", "no_face", "face"} : ReadFrame(outcome)
    \/ TimeUp
    \/ AnalyzeEmotion
    \/ AnalyzeStress
    \/ Report

CameraSpec == CameraInit /\ [][CameraNext]_vars

-----------------------------------------------------------------------------
(* Properties *)

Finished == pc \in {"returned", "raised"}

AggregationStarted == pc = "format_response" \/ response # EmptyDict

\* the dependencies the specification declares between handler nodes
DeclaredPreds(n) ==
    CASE n = "assessment" -> {"learning"}
      [] n = "schedule"   -> {"learning", "wellness"}
      [] n = "motivation" -> {"wellness"}
      [] OTHER            -> {}

\* C1: whichever handlers fail, process_request ends by returning a response
\* whose top-level keys are exactly the eight required keys.
C1_ResponseAlwaysComplete ==
    Finished => (pc = "returned" /\ DOMAIN response = RequiredKeys)

\* C2: assessment starts only after learning has resolved, schedule only
\* after learning and wellness have resolved, motivation only after wellness
\* has resolved (resolved: returned a real or a fallback result).
C2_DependencyOrder ==
    \A n \in Nodes :
        calls[n] > 0 => \A d \in DeclaredPreds(n) : status[d] \in Resolved

C2_Witness ==
    /\ status["motivation"] = "running"
    /\ calls["assessment"] = 1
    /\ calls["schedule"] = 1
    /\ status["learning"] = "fallback"

\* C3: the bundle given to assessment is the learning handler's final result,
\* and a request whose learning handler failed still runs assessment.
C3_AssessmentUsesLearningResult ==
    /\ calls["assessment"] > 0 =>
          args["assessment"]["learning_data"] = results["learning"]
    /\ (Finished /\ status["learning"] = "raised") => calls["assessment"] > 0

\* C4: building the response never starts while a handler of the request is
\* unresolved.
C4_AggregationBarrier ==
    AggregationStarted => \A n \in Nodes : status[n] \in Resolved

C4_Witness ==
    /\ pc = "format_response"
    /\ status["assessment"] = "fallback"
    /\ status["motivation"] = "ok"

\* C5: a handler failure is absorbed: process_request does not raise, and the
\* response it returns lists the failure in an error list under metadata.
C5_FailureAbsorbedAsMetadata ==
    \A n \in Nodes :
        status[n] = "raised" =>
            /\ pc # "raised"
            /\ http # "500"
            /\ pc = "returned" => "errors" \in DOMAIN response["metadata"]

\* C6: a request in which a handler never returns still completes: the
\* handler is given up after its timeout and process_request returns.
C6_HungHandlerTimesOut ==
    (\E n \in Nodes : status[n] = "hung") ~> (pc = "returned")

Rank(p) ==
    CASE p = "extract_topic"   -> 1
      [] p \in Nodes           -> 1 + IndexOf(p)
      [] p = "format_response" -> 8
      [] p \in {"returned", "raised"} -> 9
      [] p = "idle"            -> 10

\* C7: within one request every handler is invoked at most once, and control
\* only moves forward through analysis, execution, aggregation, completion.
C7_SingleForwardPass ==
    /\ [](\A n \in Nodes : calls[n] <= 1)
    /\ [][nreq' = nreq => Rank(pc') >= Rank(pc)]_vars

C7_Witness ==
    /\ pc = "returned"
    /\ \A n \in Nodes : calls[n] = 1

CallOrder == <<"wellness", "personalization", "learning", "assessment",
               "schedule", "motivation">>

C9_PersonalizationDoesNotBlock ==
    (status["personalization"] \in {"running", "hung"} /\ status["learning"] = "pending")
    => ENABLED Invoke("learning")

\* C9 amended: learning starts only after personalization has returned.
C9_PersonalizationBeforeLearning ==
    calls["learning"] > 0 => status["personalization"] \in Resolved

C9_Witness ==
    /\ status["learning"] = "ok"
    /\ status["personalization"] = "ok"
    /\ pc = "assessment"

UnrecognisedIntent ==
    /\ g_pc \in {"executing", "ended"}
    /\ "intent" \in DOMAIN g_analysis
    /\ g_analysis["intent"] \notin RecognisedIntents

\* C10 as stated: for an unrecognised intent routing selects the
\* comprehensive policy, under which all six handler nodes are active.
C10_UnrecognisedIsComprehensive ==
    UnrecognisedIntent =>
        /\ g_route = "comprehensive_study"
        /\ ActiveNodes(g_route) = HandlerNodes

\* C10 amended: for an unrecognised intent routing selects
\* personalization_first (comprehensive_study only for the literal intent
\* "comprehensive_study" with needs_personalization true); either policy
\* enters at personalization_agent and all six handler nodes run.
C10_UnrecognisedRunsAllNodes ==
    UnrecognisedIntent =>
        /\ g_route = IF g_analysis["intent"] = "comprehensive_study"
                        /\ Get(g_analysis, "needs_personalization", TRUE)
                     THEN "comprehensive_study" ELSE "personalization_first"
        /\ PathMap(g_route) = "personalization_agent"
        /\ ActiveNodes(g_route) = HandlerNodes
        /\ g_pc = "ended" => \A n \in HandlerNodes : g_ran[n] = 1

C10_Witness ==
    /\ g_pc = "ended"
    /\ "intent" \in DOMAIN g_analysis
    /\ g_analysis["intent"] = "exam_cram"
    /\ g_route = "personalization_first"
    /\ \A n \in HandlerNodes : g_ran[n] = 1

\* the entries of the result map that belong to handler nodes
ResultKeys == DOMAIN g_outputs \cap HandlerKeys

\* C11 as stated: when a run of the graph finishes, the result map has an
\* entry for each of the six handler nodes under every routing policy.
C11_InactiveNodesFilled ==
    g_pc = "ended" => ResultKeys = HandlerKeys

\* C11 amended: when a run of the graph finishes, the result map has an
\* entry exactly for the nodes the policy made run: all six under
\* personalization_first and comprehensive_study, only learning, assessment
\* and motivation under learning_focused; the entry of a node that did not
\* run is absent and the aggregation reads it with a default.
C11_InactiveNodesAbsent ==
    g_pc = "ended" =>
        /\ ResultKeys = IF g_route = "learning_focused"
                        THEN {"learning", "assessment", "motivation"}
                        ELSE HandlerKeys
        /\ \A n \in HandlerNodes : (g_ran[n] = 0) <=> (HandlerOf(n) \notin ResultKeys)
        /\ DOMAIN g_final = RequiredKeys

C11_Witness ==
    /\ g_pc = "ended"
    /\ g_route = "learning_focused"
    /\ "wellness" \notin DOMAIN g_outputs
    /\ g_final["wellness_insights"]["emotional_state"] = "focused"

\* the key each node function is to write
OwnKey ==
    [personalization_agent |-> "personalization", learning_agent |-> "learning",
     wellness_agent |-> "wellness", assessment_agent |-> "assessment",
     schedule_agent |-> "schedule", motivation_agent |-> "motivation"]

AnalysisKeys == {"topic", "intent", "complexity", "has_time_constraint",
                 "needs_personalization", "has_uploaded_content"}

\* the classification call failed or its answer was malformed
Malformed(reply) ==
    \/ reply.kind \in {"error", "empty", "text"}
    \/ reply.kind = "json" /\ ~IsDict(reply.value)
    \/ reply.kind = "json" /\ ~(AnalysisKeys \subseteq DOMAIN reply.value)

AnalysisRaised == g_pc = "raised" /\ g_ran["analyze_input"] = 1 /\ g_route = "none"

AnalysisDone == g_ran["analyze_input"] = 1 /\ ~AnalysisRaised

\* C13: input analysis never raises, and whenever the classification call
\* failed or answered something malformed, the analysis it stores has intent
\* study_planning and complexity moderate.
C13_AnalysisNeverRaises ==
    /\ ~AnalysisRaised
    /\ (AnalysisDone /\ Malformed(g_reply)) =>
          /\ Get(g_analysis, "intent", "") = "study_planning"
          /\ Get(g_analysis, "complexity", "") = "moderate"

\* C14: when the classification call answers with text that is not JSON,
\* the topic is non-empty and is the request text without the filler
\* phrases, and routing goes on as after a successful analysis.
C14_FallbackTopicNonEmpty ==
    (AnalysisDone /\ g_reply.kind = "text") =>
        /\ g_topic # <<>>
        /\ g_topic = FallbackTopic(WithoutDocument(g_input))
        /\ g_route \in {"none", "comprehensive_study"}

\* C15: for a request text with both sentinels, the topic contains neither a
\* sentinel nor the document content, and the resource-search handler is
\* given the document content as its pdf_content argument.
C15_DocumentSeparated ==
    (HasPdf(user_input) /\ pc \notin {"idle", "extract_topic"}) =>
        /\ Find(topic, Lower(StartMarker)) = 0
        /\ Find(topic, Lower(EndMarker)) = 0
        /\ ~Contains(topic, LowerAll(PdfContentOf(user_input)))
        /\ calls["learning"] > 0 =>
              args["learning"]["pdf_content"] = PdfContentOf(user_input)

\* C16: a request on which every handler succeeds is answered with a
\* non-empty study_plan.sessions list and assessment.question_count >= 1.
C16_SessionsAndQuestions ==
    (pc = "returned" /\ \A n \in Nodes : status[n] = "ok") =>
        /\ Len(response["study_plan"]["sessions"]) >= 1
        /\ response["assessment"]["question_count"] >= 1

\* C17: the aggregation step raises for no execution state, and the response
\* it stores has the eight required keys whichever result keys are absent.
C17_AggregationTotal ==
    \A i \in 1..Len(c_outs) :
        /\ c_outs[i].kind = "return"
        /\ DOMAIN c_outs[i].value.final_response = RequiredKeys

\* C18: two applications of the aggregation step to one execution state end
\* the same way, give the same response when they return, and the second
\* leaves the node results and the topic as the first left them.
C18_AggregationIdempotent ==
    Len(c_outs) = 2 =>
        /\ c_outs[2].kind = c_outs[1].kind
        /\ c_outs[1].kind = "return" =>
              /\ c_outs[2].value.final_response = c_outs[1].value.final_response
              /\ c_outs[2].value.agent_outputs = c_outs[1].value.agent_outputs
              /\ c_outs[2].value.topic = c_outs[1].value.topic

C18_Witness ==
    /\ Len(c_outs) = 2
    /\ c_outs[2].kind = "return"
    /\ DOMAIN c_state.agent_outputs = {"learning", "schedule"}
    /\ c_state.final_response["assessment"]["question_count"] = 0
    /\ Len(c_state.final_response["study_plan"]["sessions"]) >= 1

\* C19: a request with empty text is rejected at the boundary: no handler is
\* invoked for it and process_request does not start on it.
C19_EmptyTextRejected ==
    (nreq > 0 /\ user_input = <<>>) =>
        /\ \A n \in Nodes : calls[n] = 0
        /\ pc \notin Nodes \cup {"extract_topic", "format_response", "returned"}

\* C20: after any sequence of process_request calls the api_key of the
\* generative-text client configuration is the one given at construction.
C20_ConfigurationReadOnly ==
    genai_api_key = ConstructionKey


\* C21: for every combination of facial, activity and emotion-sensing inputs
\* and every hour of the day, the wellness handler returns a result whose
\* fatigue_level and stress_level lie in [0,1] (0..10 tenths) and which has
\* at most 3 recommendations.
C21_WellnessInRange ==
    (f_call.fn = "assess_wellness" /\ f_out.kind # "none") =>
        /\ f_out.kind = "return"
        /\ f_out.value.fatigue_level \in 0..10
        /\ f_out.value.stress_level \in 0..10
        /\ Len(f_out.value.recommendations) <= MaxRecommendations

SevenComponents ==
    {"learning_agent", "schedule_agent", "wellness_agent", "assessment_agent",
     "personalization_agent", "motivation_agent", "orchestrator"}

\* C22: while the orchestrator is not initialised, a request to a study-plan
\* endpoint is answered 503 and process_request is not entered, and /health
\* answers "degraded" with an empty agent list; once startup has initialised
\* it, /health answers "healthy" with the seven component names, and the
\* orchestrator never becomes uninitialised again.
C22_OrchestratorGuard ==
    [][ /\ (server = "serving" /\ orchestrator = "none") =>
              /\ pc' = "idle" /\ calls' = calls /\ nreq' = nreq
              /\ response' = response
              /\ (endpoint' # endpoint \/ http' # http) => http' = "503"
              /\ health' # health =>
                    /\ health'.status = "degraded"
                    /\ health'.agents_available = <<>>
        /\ (server = "serving" /\ orchestrator = "ready" /\ health' # health) =>
              /\ health'.status = "healthy"
              /\ Len(health'.agents_available) = 7
              /\ {health'.agents_available[i] : i \in 1..7} = SevenComponents
        /\ orchestrator = "ready" => orchestrator' = "ready" ]_vars

\* startup failed, a study-plan request was answered 503 and /health
\* answered degraded
C22_Witness ==
    /\ server = "serving" /\ orchestrator = "none"
    /\ http = "503" /\ endpoint = "study-plan-with-pdf"
    /\ health = [status |-> "degraded", agents_available |-> <<>>]
    /\ nreq = 0

\* C26: whenever the PDF study-plan endpoint is not in the middle of a call,
\* no temporary file it wrote is left on disk, whether the call succeeded,
\* failed during text extraction or failed during request processing.
C26_TempFileDeleted ==
    (pc = "idle") => temp_files = 0

\* C23: handle_call_tool never raises: while the orchestrator is
\* uninitialised it returns the not-initialised error text for every tool
\* name; otherwise it returns 'Unknown tool: <name>' for a name outside the
\* six listed tools, and 'Error executing tool <name>: ...' whenever the
\* tool body raises.
C23_CallToolNeverRaises ==
    (f_call.fn = "handle_call_tool" /\ f_out.kind # "none") =>
        /\ f_out.kind = "return"
        /\ f_call.orchestrator = "none" => f_out.value.form = "not_initialized"
        /\ (f_call.orchestrator # "none" /\ f_call.name \notin ListedTools) =>
              f_out.value = [form |-> "unknown_tool", name |-> f_call.name]
        /\ (f_call.orchestrator # "none" /\ f_call.name \in ListedTools) =>
              \/ f_out.value.form = "json"
              \/ f_out.value = [form |-> "error_executing_tool", name |-> f_call.name]
        /\ (f_call.orchestrator # "none" /\ f_call.name \in ListedTools
            /\ (\/ f_call.arguments = NoneVal
                \/ RequiredArgument(f_call.name)
                      \notin DOMAIN f_call.arguments \cup {"none"})) =>
              f_out.value = [form |-> "error_executing_tool", name |-> f_call.name]

\* the wellness tool was called on an initialised server, its body raised,
\* and the call returned the error text
C23_Witness ==
    /\ f_call.fn = "handle_call_tool"
    /\ f_call.orchestrator = "ready"
    /\ f_call.name = "assess_wellness"
    /\ f_call.arguments # NoneVal
    /\ f_out.kind = "return"
    /\ f_out.value.form = "error_executing_tool"

\* the handler nodes that have run in this run of the graph
RanNodes == {n \in HandlerNodes : g_ran[n] > 0}

C25_SelfCompassionIncluded ==
    (f_call.fn = "get_motivational_support" /\ f_out.kind = "return") =>
        LET supports == f_out.value.support_elements
        IN  /\ \E i \in 1..Len(supports) : supports[i] = "self_compassion"
            /\ Len(supports) <= MaxSupports

\* a given answer matches: equal to the correct answer, or for a
\* fill-in-the-blank question a non-empty answer contained in it
Matches(question, answer) ==
    IF question.type = "fill_blank"
    THEN Strip(answer) # <<>>
         /\ Contains(LowerAll(question.correct_answer), Strip(LowerAll(answer)))
    ELSE answer = question.correct_answer

\* C27: evaluate_answers returns a result for every quiz and answer list,
\* including a quiz with no questions and an answer list shorter than the
\* question list, and its score is 100 x (questions whose given answer
\* matches) / (questions); an unanswered question or an empty
\* fill-in-the-blank answer is never counted as correct.
C27_EvaluateTotalAndExact ==
    (f_call.fn = "evaluate_answers" /\ f_out.kind # "none") =>
        LET qs == f_call.quiz.questions
            as == f_call.student_answers
            matching == Cardinality({ i \in 1..Len(qs) :
                                        i <= Len(as) /\ Matches(qs[i], as[i]) })
        IN  /\ f_out.kind = "return"
            /\ Len(qs) > 0 => f_out.value.score = (matching * 100) \div Len(qs)

\* the events of a plan whose summary begins with the given words
EventsOf(events, words) ==
    {i \in 1..Len(events) : events[i].summary[1] = words}

C30_MotivationSeesReportedWellness ==
    (g_pc = "ended" /\ g_ran["motivation_agent"] > 0) =>
        LET context  == g_args["motivation_agent"].context
            insights == g_final["wellness_insights"]
        IN  /\ context.emotional_state = insights["emotional_state"]
            /\ context.fatigue_level = insights["fatigue_level"]

\* C28: for every frame the camera demo processes, the stress percentage it
\* reports is the stress value mapped from the emotion it reports for that
\* frame, whatever the number of frames and of earlier calls of the emotion
\* analysis.
C28_StressMatchesEmotion ==
    ("stress" \in DOMAIN reported) =>
        reported.stress = StressMapping(reported.emotion)

=============================================================================
